---------------------------- MODULE Spec2Model ----------------------------
(***************************************************************************)
(* A model of the WebEx bridge's message-triage engine:                    *)
(*   - RoomFilterService (five-tier room filter with a TTL cache),         *)
(*   - WebexService (metadata collector, requests, hard urgency filter),   *)
(*   - WebexHybridService (access-mode detection and retrieval).           *)
(* Strings are sequences of one-character strings, so that lower-casing,   *)
(* trimming, substring search and wildcard matching are computed.          *)
(***************************************************************************)
EXTENDS Integers, Sequences, FiniteSets, TLC

VARIABLES
    config,         \* RoomFilterService.config (FilterConfig), immutable
    upstream,       \* the chat service: room listing and per-room fetch outcomes
    now,            \* the clock, in minutes
    cachedResult,   \* RoomFilterService.cachedResult: <<>> (null) or <<FilterResult>>
    cacheExpiry,    \* RoomFilterService.cacheExpiry:  <<>> (null) or <<minute>>
    call,           \* the last operation on WebexService and what it did
    env,            \* process.env: URGENCY_KEYWORDS and HIGH_PRIORITY_SENDERS
    summary,        \* what the last getAllMessageSummaries read and returned
    hybridConfig,   \* WebexMCPServer.hybridConfig, shared with WebexHybridService
    hybridService,  \* WebexMCPServer.hybridService: its services and activeMode
    messageQueue,   \* WebexWebhookService.messageQueue
    urgentMessages, \* WebexWebhookService.urgentMessages
    hybridCall,     \* the last operation on WebexHybridService and what it did
    collector,      \* a collectRoomMetadata call in progress: its position and Map
    callers,        \* the concurrent requests on WebexService: where each one is
    diagnosis       \* what getPersonalTokenDiagnostics met and what it returned

filterVars == <<config, upstream, cachedResult, cacheExpiry, call>>
triageVars == <<env, summary>>
hybridVars == <<hybridConfig, hybridService, messageQueue, urgentMessages, hybridCall>>

processVars == <<collector, callers, diagnosis>>

vars == <<filterVars, now, triageVars, hybridVars, processVars>>

-----------------------------------------------------------------------------
(* Bounds of the model *)

MaxPriority == 2       \* longest priorityRooms list
MaxMonitored == 2      \* largest maxMonitoredRooms
MaxTime == 3           \* the clock stops here
MaxCacheMinutes == 2   \* largest cacheMinutes when the cache is observed over time
MaxQueue == 1          \* longest webhook message queue
MaxListedRooms == 4    \* most rooms listed to the personal token diagnostics
MaxCallers == 2        \* most requests on WebexService at the same time

-----------------------------------------------------------------------------
(* Strings *)

LowerChar(c) ==
    CASE c = "A" -> "a"
      [] c = "L" -> "l"
      [] c = "O" -> "o"
      [] c = "S" -> "s"
      [] c = "P" -> "p"
      [] c = "D" -> "d"
      [] c = "W" -> "w"
      [] c = "N" -> "n"
      [] OTHER -> c

\* String.prototype.toLowerCase
ToLowerCase(s) == [i \in 1..Len(s) |-> LowerChar(s[i])]

\* The regular expression '^' + pattern.replace(/\*/g, '.*') + '$' tested on
\* str[j..]: '*' is '.*', '.' is any one character, any other character is itself.
RECURSIVE RegexTest(_, _, _, _)
RegexTest(pattern, i, str, j) ==
    IF i > Len(pattern) THEN j > Len(str)
    ELSE IF pattern[i] = "*"
         THEN \E k \in j..(Len(str) + 1) : RegexTest(pattern, i + 1, str, k)
         ELSE /\ j <= Len(str)
              /\ (pattern[i] = "." \/ pattern[i] = str[j])
              /\ RegexTest(pattern, i + 1, str, j + 1)

\* String.prototype.trim, for the space character
RECURSIVE TrimStart(_)
TrimStart(s) == IF s # <<>> /\ Head(s) = " " THEN TrimStart(Tail(s)) ELSE s

RECURSIVE TrimEnd(_)
TrimEnd(s) ==
    IF s # <<>> /\ s[Len(s)] = " " THEN TrimEnd(SubSeq(s, 1, Len(s) - 1)) ELSE s

Trim(s) == TrimEnd(TrimStart(s))

\* String.prototype.includes: sub occurs in s (the empty string always does)
Includes(s, sub) ==
    \E i \in 0..(Len(s) - Len(sub)) : SubSeq(s, i + 1, i + Len(sub)) = sub

\* String.prototype.split(sep) for a one-character separator
RECURSIVE Split(_, _)
Split(s, sep) ==
    LET hits == { i \in 1..Len(s) : s[i] = sep }
    IN  IF hits = {} THEN << s >>
        ELSE LET i == CHOOSE k \in hits : \A m \in hits : k <= m
             IN  << SubSeq(s, 1, i - 1) >> \o Split(SubSeq(s, i + 1, Len(s)), sep)

\* Array.prototype.join(sep)
RECURSIVE Join(_, _)
Join(list, sep) ==
    IF list = <<>> THEN <<>>
    ELSE IF Len(list) = 1 THEN list[1]
    ELSE list[1] \o sep \o Join(Tail(list), sep)

\* Array.prototype.includes
ArrayIncludes(list, x) == \E i \in 1..Len(list) : list[i] = x

-----------------------------------------------------------------------------
(* RoomFilterService *)

Undefined == -1        \* memberCount when the membership call failed

\* matchesPatterns(title, patterns)
MatchesPatterns(title, patterns) ==
    IF Len(patterns) = 0 THEN FALSE
    ELSE \E p \in 1..Len(patterns) :
            RegexTest(ToLowerCase(patterns[p]), 1, ToLowerCase(title), 1)

\* passesActivityFilter(metadata): lastActivity > now - minActivityDays days,
\* with lastActivity given as the room's age in days.
PassesActivityFilter(cfg, md) ==
    /\ md.lastActivityAge < cfg.minActivityDays
    /\ md.recentMessageCount >= cfg.minActivityMessages

Max(a, b) == IF a >= b THEN a ELSE b

\* calculateScore(metadata)
CalculateScore(md) ==
      (IF md.hasUrgentKeywords THEN 1000 ELSE 0)
    + md.recentMessageCount * 10
    + (IF md.memberCount = Undefined THEN 0 ELSE md.memberCount) * 2
    + Max(0, 50 - md.lastActivityAge)

\* allRooms.find(r => r.id === identifier ||
\*                    r.title?.toLowerCase() === identifier.toLowerCase()):
\* the index of the first such room, 0 when there is none.
FindRoom(allRooms, identifier) ==
    LET hits == { i \in 1..Len(allRooms) :
                     \/ allRooms[i].id = identifier
                     \/ ToLowerCase(allRooms[i].title) = ToLowerCase(identifier) }
    IN  IF hits = {} THEN 0 ELSE CHOOSE i \in hits : \A k \in hits : i <= k

\* Phase 1 of filterRooms: one pass over config.priorityRooms.
RECURSIVE PriorityPhase(_, _, _, _, _)
PriorityPhase(allRooms, roomMetadata, priorityRooms, n, acc) ==
    IF n > Len(priorityRooms) THEN acc
    ELSE LET i == FindRoom(allRooms, priorityRooms[n])
         IN  IF i # 0 /\ allRooms[i].id \in DOMAIN roomMetadata
             THEN PriorityPhase(allRooms, roomMetadata, priorityRooms, n + 1,
                    [ monitored     |-> Append(acc.monitored,
                                         [roomMetadata[allRooms[i].id]
                                             EXCEPT !.filterReason = "Priority room"]),
                      prioritySet   |-> acc.prioritySet \cup {allRooms[i].id},
                      priorityCount |-> acc.priorityCount + 1 ])
             ELSE PriorityPhase(allRooms, roomMetadata, priorityRooms, n + 1, acc)

\* Phases 2-4 with the exclude patterns applied before the direct-message skip.
Disposition_ExcludeFirst(cfg, room, md) ==
    IF MatchesPatterns(room.title, cfg.excludePatterns) THEN "Matches exclude pattern"
    ELSE IF cfg.skipDirectMessages /\ room.type = "direct" THEN "Direct message skipped"
    ELSE IF ~ ( Len(cfg.includePatterns) = 0
                \/ MatchesPatterns(room.title, cfg.includePatterns) )
         THEN "No include pattern match"
    ELSE IF ~ PassesActivityFilter(cfg, md) THEN "Low activity"
    ELSE "candidate"

\* Phases 2-4 for one room outside the priority set: the reason it is excluded
\* for, or "candidate".
Disposition(cfg, room, md) ==
    IF cfg.skipDirectMessages /\ room.type = "direct" THEN "Direct message skipped"
    ELSE IF MatchesPatterns(room.title, cfg.excludePatterns) THEN "Matches exclude pattern"
    ELSE IF ~ ( Len(cfg.includePatterns) = 0
                \/ MatchesPatterns(room.title, cfg.includePatterns) )
         THEN "No include pattern match"
    ELSE IF ~ PassesActivityFilter(cfg, md) THEN "Low activity"
    ELSE "candidate"

\* The loop of phases 2-4: excluded rooms and candidates, each in input order.
RECURSIVE FilterPhase(_, _, _, _, _, _)
FilterPhase(cfg, allRooms, roomMetadata, prioritySet, n, acc) ==
    IF n > Len(allRooms) THEN acc
    ELSE LET room == allRooms[n]
         IN  IF room.id \in prioritySet \/ room.id \notin DOMAIN roomMetadata
             THEN FilterPhase(cfg, allRooms, roomMetadata, prioritySet, n + 1, acc)
             ELSE LET md == roomMetadata[room.id]
                      d  == Disposition(cfg, room, md)
                  IN  IF d = "candidate"
                      THEN FilterPhase(cfg, allRooms, roomMetadata, prioritySet, n + 1,
                             [acc EXCEPT !.candidates =
                                 Append(@, [md EXCEPT !.score = CalculateScore(md)])])
                      ELSE FilterPhase(cfg, allRooms, roomMetadata, prioritySet, n + 1,
                             [acc EXCEPT !.excluded =
                                 Append(@, [md EXCEPT !.filterReason = d])])

RECURSIVE InsertByScore_TiesReversed(_, _)
RECURSIVE InsertByScore(_, _)

\* A sort by score that puts a later candidate before the earlier ones of
\* equal score.
InsertByScore_TiesReversed(sorted, md) ==
    IF sorted = <<>> THEN <<md>>
    ELSE IF Head(sorted).score > md.score
         THEN <<Head(sorted)>> \o InsertByScore_TiesReversed(Tail(sorted), md)
         ELSE <<md>> \o sorted

\* candidates.sort((a, b) => b.score - a.score): a stable sort, score descending.
InsertByScore(sorted, md) ==
    IF sorted = <<>> THEN <<md>>
    ELSE IF Head(sorted).score >= md.score
         THEN <<Head(sorted)>> \o InsertByScore(Tail(sorted), md)
         ELSE <<md>> \o sorted

RECURSIVE SortByScore(_)
SortByScore(candidates) ==
    IF candidates = <<>> THEN <<>>
    ELSE InsertByScore(SortByScore(SubSeq(candidates, 1, Len(candidates) - 1)),
                       candidates[Len(candidates)])

\* The recomputation of filterRooms (everything after the cache check).
ComputeFilter(cfg, allRooms, roomMetadata, time) ==
    LET p1     == PriorityPhase(allRooms, roomMetadata, cfg.priorityRooms, 1,
                     [monitored |-> <<>>, prioritySet |-> {}, priorityCount |-> 0])
        p2     == FilterPhase(cfg, allRooms, roomMetadata, p1.prioritySet, 1,
                     [excluded |-> <<>>, candidates |-> <<>>])
        sorted == SortByScore(p2.candidates)
        limit  == cfg.maxMonitoredRooms - p1.priorityCount
        passed == { i \in 1..Len(sorted) : i - 1 < limit }
        taken  == [i \in 1..Cardinality(passed) |->
                      [sorted[i] EXCEPT !.filterReason = "Passed filters"]]
        rest   == [i \in 1..(Len(sorted) - Cardinality(passed)) |->
                      [sorted[i + Cardinality(passed)]
                          EXCEPT !.filterReason = "Limit exceeded"]]
        monitoredRooms == p1.monitored \o taken
    IN  [ monitoredRooms |-> monitoredRooms,
          excludedRooms  |-> p2.excluded \o rest,
          stats |-> [ totalRooms          |-> Len(allRooms),
                      monitoredCount      |-> Len(monitoredRooms),
                      priorityCount       |-> p1.priorityCount,
                      patternMatchedCount |-> Len(taken),
                      droppedDueToLimit   |-> Len(rest) ],
          lastRefresh |-> time ]

\* The cache check at the head of filterRooms.
CacheValid ==
    /\ cachedResult # <<>>
    /\ cacheExpiry # <<>>
    /\ now < cacheExpiry[1]

\* getStats(): <<>> for null.
GetStats ==
    IF cachedResult # <<>>
    THEN << [ stats          |-> cachedResult[1].stats,
              lastRefresh    |-> cachedResult[1].lastRefresh,
              cacheExpiresIn |-> IF cacheExpiry # <<>>
                                 THEN Max(0, cacheExpiry[1] - now) ELSE 0 ] >>
    ELSE <<>>

-----------------------------------------------------------------------------
(* WebexService: the metadata collector *)

\* One room of collectRoomMetadata, from the outcome of its two upstream calls.
CollectOne(room, outcome) ==
    IF outcome.ok
    THEN [ id                 |-> room.id,
           title              |-> room.title,
           type               |-> room.type,
           memberCount        |-> outcome.members,
           lastActivityAge    |-> room.lastActivityAge,
           recentMessageCount |-> Cardinality({ i \in 1..Len(outcome.messages) :
                                                   outcome.messages[i].recent }),
           isArchived         |-> room.isLocked,
           hasUrgentKeywords  |-> \E i \in 1..Len(outcome.messages) :
                                                   outcome.messages[i].urgent,
           urgentMessageCount |-> Cardinality({ i \in 1..Len(outcome.messages) :
                                                   outcome.messages[i].urgent }),
           score              |-> 0,
           filterReason       |-> "" ]
    ELSE [ id                 |-> room.id,
           title              |-> room.title,
           type               |-> room.type,
           memberCount        |-> 0,
           lastActivityAge    |-> room.lastActivityAge,
           recentMessageCount |-> 0,
           isArchived         |-> TRUE,
           hasUrgentKeywords  |-> FALSE,
           urgentMessageCount |-> 0,
           score              |-> 0,
           filterReason       |-> "Access error" ]

\* collectRoomMetadata(rooms): the Map from room id to RoomMetadata.
CollectRoomMetadata(rooms, outcomes) ==
    [ id \in { rooms[i].id : i \in 1..Len(rooms) } |->
        LET i == CHOOSE k \in 1..Len(rooms) :
                    /\ rooms[k].id = id
                    /\ \A m \in 1..Len(rooms) : rooms[m].id = id => m <= k
        IN  CollectOne(rooms[i], outcomes[i]) ]

\* What the two upstream calls for one room do when a collection is followed
\* call by call: GET /messages fails, never responds or answers, and then
\* GET /memberships fails, never responds or answers.
CallOutcomes ==
    { [fetch |-> "fails",   memberships |-> "fails"],
      [fetch |-> "hangs",   memberships |-> "fails"],
      [fetch |-> "answers", memberships |-> "fails"],
      [fetch |-> "answers", memberships |-> "hangs"],
      [fetch |-> "answers", memberships |-> "answers"] }

\* The answers of the two calls as collectRoomMetadata reads them.
AsFetchOutcome(o) ==
    [ ok       |-> o.fetch = "answers",
      messages |-> IF o.fetch = "answers" THEN << [recent |-> TRUE, urgent |-> TRUE] >>
                   ELSE <<>>,
      members  |-> IF o.memberships = "answers" THEN 2 ELSE Undefined ]

\* No collectRoomMetadata call in progress.
NoCollector ==
    [ phase |-> "idle", rooms |-> <<>>, outcomes |-> <<>>, index |-> 0,
      metadata |-> <<>> ]

\* metadata.set(room.id, record)
MapSet(map, key, value) ==
    [ k \in DOMAIN map \cup {key} |-> IF k = key THEN value ELSE map[k] ]

\* The for loop of collectRoomMetadata moving on to the next room, or
\* returning the Map after the last one.
NextRoom(c, record) ==
    [ c EXCEPT !.metadata = MapSet(c.metadata, c.rooms[c.index].id, record),
               !.index = c.index + 1,
               !.phase = IF c.index = Len(c.rooms) THEN "done" ELSE "messages" ]

\* A failed message fetch that leaves the loop instead of being caught.
OnFetchError_Propagates(c) == [c EXCEPT !.phase = "threw"]

\* collectRoomMetadata: the catch block of a room
OnFetchError(c) ==
    NextRoom(c, CollectOne(c.rooms[c.index], AsFetchOutcome(c.outcomes[c.index])))

\* collectRoomMetadata(rooms) is called: the first GET /messages is sent.
CollectStart ==
    /\ collector.phase = "idle"
    /\ collector' = [ collector EXCEPT
                        !.index = 1,
                        !.phase = IF collector.rooms = <<>> THEN "done" ELSE "messages" ]
    /\ UNCHANGED <<filterVars, now, triageVars, hybridVars, callers, diagnosis>>

\* The awaited GET /messages of the current room settles.
MessagesSettle ==
    /\ collector.phase = "messages"
    /\ collector.outcomes[collector.index].fetch # "hangs"
    /\ collector' = IF collector.outcomes[collector.index].fetch = "fails"
                    THEN OnFetchError(collector)
                    ELSE [collector EXCEPT !.phase = "memberships"]
    /\ UNCHANGED <<filterVars, now, triageVars, hybridVars, callers, diagnosis>>

\* The awaited GET /memberships of the current room settles (a failure gives
\* memberCount undefined), and the room's metadata is stored.
MembershipsSettle ==
    /\ collector.phase = "memberships"
    /\ collector.outcomes[collector.index].memberships # "hangs"
    /\ collector' = NextRoom(collector,
                        CollectOne(collector.rooms[collector.index],
                                   AsFetchOutcome(collector.outcomes[collector.index])))
    /\ UNCHANGED <<filterVars, now, triageVars, hybridVars, callers, diagnosis>>

-----------------------------------------------------------------------------
(* WebexService: the personal token diagnostics *)

\* allRooms.slice(0, 3): the rooms the membership and message tests try.
TestedRooms == 3

FirstRooms(rooms) ==
    SubSeq(rooms, 1, IF Len(rooms) < TestedRooms THEN Len(rooms) ELSE TestedRooms)

\* TEST 3: the number of tested rooms whose memberships list the user.
\* userEmail is undefined, and no membership equals it, when /people/me failed.
BotInRoomsCount(rooms, userKnown) ==
    Cardinality({ i \in 1..Len(FirstRooms(rooms)) :
                     userKnown /\ FirstRooms(rooms)[i].membership = "member" })

\* TEST 4: GET /messages on the tested rooms in turn until one succeeds;
\* errorCode is the status of the last failure (0: none).
RECURSIVE MessageReadTest(_, _, _)
MessageReadTest(rooms, i, errorCode) ==
    IF i > Len(rooms) THEN [ canReadMessages |-> FALSE, errorCode |-> errorCode ]
    ELSE IF rooms[i].read = 200
         THEN [ canReadMessages |-> TRUE, errorCode |-> errorCode ]
         ELSE MessageReadTest(rooms, i + 1, rooms[i].read)

\* The root-cause analysis asking for the missing scope first.
RootCause_ScopeFirst(cause, canListRooms, botInRoomsCount, canReadMessages, errorCode) ==
    IF canListRooms /\ ~canReadMessages /\ errorCode = 403 THEN "MISSING_SCOPE"
    ELSE IF canListRooms /\ botInRoomsCount > 0 /\ ~canReadMessages THEN "ORG_POLICY"
    ELSE IF canListRooms /\ botInRoomsCount = 0 THEN "NOT_ROOM_MEMBER"
    ELSE IF ~canListRooms THEN "TOKEN_INVALID"
    ELSE cause

\* getPersonalTokenDiagnostics, "ANALYSIS: Determine Root Cause": the if /
\* else-if chain; cause is likely403Cause as the tests left it.
RootCause(cause, canListRooms, botInRoomsCount, canReadMessages, errorCode) ==
    IF canListRooms /\ botInRoomsCount > 0 /\ ~canReadMessages THEN "ORG_POLICY"
    ELSE IF canListRooms /\ botInRoomsCount = 0 THEN "NOT_ROOM_MEMBER"
    ELSE IF ~canListRooms THEN "TOKEN_INVALID"
    ELSE IF canListRooms /\ ~canReadMessages /\ errorCode = 403 THEN "MISSING_SCOPE"
    ELSE cause

\* getPersonalTokenDiagnostics(): the evidence of the four tests and the
\* cause the analysis settles on.  A failed /people/me sets TOKEN_INVALID
\* before the other tests run; a failed /rooms leaves allRooms empty.
PersonalTokenDiagnostics(world) ==
    LET allRooms == IF world.listed THEN world.rooms ELSE <<>>
        readTest == MessageReadTest(FirstRooms(allRooms), 1, 0)
    IN  [ tokenValid        |-> world.tokenValid,
          canListRooms      |-> world.listed,
          botInRoomsCount   |-> BotInRoomsCount(allRooms, world.tokenValid),
          canReadMessages   |-> readTest.canReadMessages,
          errorCode         |-> readTest.errorCode,
          likely403Cause    |->
              RootCause(IF world.tokenValid THEN "UNKNOWN" ELSE "TOKEN_INVALID",
                        world.listed, BotInRoomsCount(allRooms, world.tokenValid),
                        readTest.canReadMessages, readTest.errorCode) ]

\* No diagnostics run yet, on what the chat service would answer.
NotDiagnosed(world) == [ world |-> world, result |-> <<>> ]

NoDiagnosis == NotDiagnosed([tokenValid |-> TRUE, listed |-> TRUE, rooms |-> <<>>])

\* getPersonalTokenDiagnostics() against the chat service
GetPersonalTokenDiagnostics ==
    /\ diagnosis' = [ diagnosis EXCEPT
                        !.result = << PersonalTokenDiagnostics(diagnosis.world) >> ]
    /\ UNCHANGED <<filterVars, now, triageVars, hybridVars, collector, callers>>

-----------------------------------------------------------------------------
(* WebexService: the hard urgency filter *)

\* 'urgent,asap,critical,production,down,incident,emergency,help,broken,'
\* 'failed,error,outage,sev1,p1'
DefaultUrgencyKeywords ==
        << "u", "r", "g", "e", "n", "t", ",", "a", "s", "a", "p", ",", "c",
           "r", "i", "t", "i", "c", "a", "l", ",", "p", "r", "o", "d", "u",
           "c", "t", "i", "o", "n", ",", "d", "o", "w", "n", ",", "i", "n",
           "c", "i", "d", "e", "n", "t", ",", "e", "m", "e", "r", "g", "e",
           "n", "c", "y", ",", "h", "e", "l", "p", ",", "b", "r", "o", "k",
           "e", "n", ",", "f", "a", "i", "l", "e", "d", ",", "e", "r", "r",
           "o", "r", ",", "o", "u", "t", "a", "g", "e", ",", "s", "e", "v",
           "1", ",", "p", "1" >>

\* '<default>'.split(',')
DefaultKeywordList == Split(DefaultUrgencyKeywords, ",")

\* (process.env.URGENCY_KEYWORDS || '<default>').split(','); an unset and an
\* empty variable are both <<>>.
UrgencyKeywords(e) ==
    IF e.URGENCY_KEYWORDS = <<>> THEN DefaultKeywordList
    ELSE Split(e.URGENCY_KEYWORDS, ",")

\* (process.env.HIGH_PRIORITY_SENDERS || '').split(',').filter(s => s.length > 0)
HighPrioritySenders(e) ==
    SelectSeq(Split(e.HIGH_PRIORITY_SENDERS, ","), LAMBDA s : Len(s) > 0)

\* text.includes(keyword.trim()): the keyword is taken as it is written.
KeywordMatches_CaseSensitive(text, keyword) == Includes(text, Trim(keyword))

\* text.includes(keyword.toLowerCase().trim())
KeywordMatches(text, keyword) == Includes(text, Trim(ToLowerCase(keyword)))

\* Off-hours that begin with the end hour.
IsOffHours_FromEndHour(created) == created.hour < 9 \/ created.hour >= 17

\* hour < 9 || hour > 17, of the local time of message.created
IsOffHours(created) == created.hour < 9 \/ created.hour > 17

\* getDay() === 0 || getDay() === 6
IsWeekend(created) == created.day = 0 \/ created.day = 6

\* isMessageCriticallyUrgent(message)
IsMessageCriticallyUrgent(e, message) ==
    LET text == ToLowerCase(message.text)
        urgencyKeywords == UrgencyKeywords(e)
    IN  \/ \E k \in 1..Len(urgencyKeywords) : KeywordMatches(text, urgencyKeywords[k])
        \/ ArrayIncludes(HighPrioritySenders(e), message.personEmail)
        \/ /\ Len(message.mentionedPeople) > 0
           /\ (IsOffHours(message.created) \/ IsWeekend(message.created))

\* calculateUrgencyScore(message), in tenths
CalculateUrgencyScore(e, message) ==
    IF IsMessageCriticallyUrgent(e, message) THEN 10 ELSE 0

\* mapWebexMessage(webexMsg): the message with urgencyScore and
\* isUrgent = urgencyScore > 0.6
MapWebexMessage(e, webexMsg) ==
    [ id                |-> webexMsg.id,
      roomId            |-> webexMsg.roomId,
      text              |-> webexMsg.text,
      personEmail       |-> webexMsg.personEmail,
      personDisplayName |-> webexMsg.personDisplayName,
      mentionedPeople   |-> webexMsg.mentionedPeople,
      created           |-> webexMsg.created,
      urgencyScore      |-> CalculateUrgencyScore(e, webexMsg),
      isUrgent          |-> CalculateUrgencyScore(e, webexMsg) > 6 ]

\* ['production', 'down', 'outage', 'sev1', 'p1', 'critical', 'emergency']
EmergencyKeywords ==
    << << "p", "r", "o", "d", "u", "c", "t", "i", "o", "n" >>,
       << "d", "o", "w", "n" >>,
       << "o", "u", "t", "a", "g", "e" >>,
       << "s", "e", "v", "1" >>,
       << "p", "1" >>,
       << "c", "r", "i", "t", "i", "c", "a", "l" >>,
       << "e", "m", "e", "r", "g", "e", "n", "c", "y" >> >>

\* urgencyKeywords.filter(keyword => text.includes(keyword.toLowerCase().trim()))
MatchedKeywords(e, message) ==
    SelectSeq(UrgencyKeywords(e),
              LAMBDA k : KeywordMatches(ToLowerCase(message.text), k))

\* emergencyKeywords.includes(k.toLowerCase())
IsEmergencyKeyword(k) == ArrayIncludes(EmergencyKeywords, ToLowerCase(k))

\* The reasons getUrgencyReasons pushes for the keywords.
KeywordReasons(e, message) ==
    LET matchedKeywords == MatchedKeywords(e, message)
    IN  IF Len(matchedKeywords) = 0 THEN <<>>
        ELSE << \* 'Contains urgency keywords: ' + matchedKeywords.join(', ')
                << "C", "o", "n", "t", "a", "i", "n", "s", " ", "u", "r", "g",
                   "e", "n", "c", "y", " ", "k", "e", "y", "w", "o", "r", "d",
                   "s", ":", " " >> \o Join(matchedKeywords, << ",", " " >>) >>
             \o IF \E k \in 1..Len(matchedKeywords) :
                       IsEmergencyKeyword(matchedKeywords[k])
                THEN << \* 'CRITICAL: Production/emergency issue detected'
                        << "C", "R", "I", "T", "I", "C", "A", "L", ":", " ",
                           "P", "r", "o", "d", "u", "c", "t", "i", "o", "n",
                           "/", "e", "m", "e", "r", "g", "e", "n", "c", "y",
                           " ", "i", "s", "s", "u", "e", " ", "d", "e", "t",
                           "e", "c", "t", "e", "d" >> >>
                ELSE <<>>

\* The reason getUrgencyReasons pushes for the sender:
\* 'High priority sender: ' + (personDisplayName || personEmail)
SenderReasons(e, message) ==
    IF ArrayIncludes(HighPrioritySenders(e), message.personEmail)
    THEN << << "H", "i", "g", "h", " ", "p", "r", "i", "o", "r", "i", "t", "y",
               " ", "s", "e", "n", "d", "e", "r", ":", " " >>
            \o (IF message.personDisplayName # <<>>
                THEN message.personDisplayName ELSE message.personEmail) >>
    ELSE <<>>

\* The reasons getUrgencyReasons pushes for the mentions.
MentionReasons(message) ==
    IF Len(message.mentionedPeople) = 0 THEN <<>>
    ELSE (IF IsOffHours(message.created)
          THEN << \* 'Direct mention during off-hours'
                  << "D", "i", "r", "e", "c", "t", " ", "m", "e", "n", "t",
                     "i", "o", "n", " ", "d", "u", "r", "i", "n", "g", " ",
                     "o", "f", "f", "-", "h", "o", "u", "r", "s" >> >>
          ELSE <<>>)
      \o (IF IsWeekend(message.created)
          THEN << \* 'Direct mention during weekend'
                  << "D", "i", "r", "e", "c", "t", " ", "m", "e", "n", "t",
                     "i", "o", "n", " ", "d", "u", "r", "i", "n", "g", " ",
                     "w", "e", "e", "k", "e", "n", "d" >> >>
          ELSE <<>>)
      \o (IF ~IsOffHours(message.created) /\ ~IsWeekend(message.created)
          THEN << \* 'Direct mention during business hours'
                  << "D", "i", "r", "e", "c", "t", " ", "m", "e", "n", "t",
                     "i", "o", "n", " ", "d", "u", "r", "i", "n", "g", " ",
                     "b", "u", "s", "i", "n", "e", "s", "s", " ", "h", "o",
                     "u", "r", "s" >> >>
          ELSE <<>>)

\* getUrgencyReasons(message)
GetUrgencyReasons(e, message) ==
    KeywordReasons(e, message) \o SenderReasons(e, message) \o MentionReasons(message)

\* urgencyReasons.some(r => r.includes('emergency') || r.includes('critical'))
RequiresImmediate(urgencyReasons) ==
    \E r \in 1..Len(urgencyReasons) :
        \/ Includes(urgencyReasons[r], << "e", "m", "e", "r", "g", "e", "n", "c", "y" >>)
        \/ Includes(urgencyReasons[r], << "c", "r", "i", "t", "i", "c", "a", "l" >>)

\* new Date(msg.created) > sinceTime, with sinceTime = time - sinceMinutes
CreatedAfter(msg, time, sinceMinutes) == msg.created.at > time - sinceMinutes

RECURSIVE Flatten(_)
Flatten(lists) == IF lists = <<>> THEN <<>> ELSE Head(lists) \o Flatten(Tail(lists))

\* The loop body of getAllMessageSummaries for one room: the entries it
\* pushes to urgentMessages and the room's latestMessages; nothing for a room
\* whose message fetch fails.
SummarizeRoom(e, room, time, sinceHours) ==
    LET mapped == [i \in 1..Len(room.items) |-> MapWebexMessage(e, room.items[i])]
        messages == IF room.ok
                    THEN SelectSeq(mapped,
                                   LAMBDA m : CreatedAfter(m, time, sinceHours * 60))
                    ELSE <<>>
        urgent == SelectSeq(messages, LAMBDA m : IsMessageCriticallyUrgent(e, m))
        nonUrgentMessages ==
            SelectSeq(messages, LAMBDA m : ~IsMessageCriticallyUrgent(e, m))
    IN  [ lastActivity   |-> room.lastActivity,
          urgentMessages |->
              [i \in 1..Len(urgent) |->
                  LET urgencyReasons == GetUrgencyReasons(e, urgent[i])
                  IN  [ message           |-> urgent[i],
                        matchedKeywords   |-> MatchedKeywords(e, urgent[i]),
                        urgencyReasons    |-> urgencyReasons,
                        requiresImmediate |-> RequiresImmediate(urgencyReasons) ]],
          latestMessages |->
              SubSeq(nonUrgentMessages,
                     Max(1, Len(nonUrgentMessages) - 2), Len(nonUrgentMessages)) ]

\* Array.prototype.sort, which is stable: the items in the order in which
\* the pair <<i, j>> of `before' says that item i sorts strictly before item j.
StableSort(items, before) ==
    LET n == Len(items)
        Before(i, j) == <<i, j>> \in before
        Position(i) ==
            1 + Cardinality({ j \in 1..n : Before(j, i) \/ (~Before(i, j) /\ j < i) })
    IN  [ p \in 1..n |-> items[CHOOSE i \in 1..n : Position(i) = p] ]

\* getAllMessageSummaries: the rooms (positions in the listing) for which the
\* loop "for (const room of rooms)" issues GET /messages.
FetchedRooms(listing) == 1..Len(listing.rooms)

\* getAllMessageSummaries(sinceHours): every listed room is scanned; urgent
\* entries sorted immediate first, then newest first; room summaries sorted by
\* last activity, latest first.  It throws when GET /rooms fails.
AllMessageSummaries(e, listing, time, sinceHours) ==
    IF ~listing.ok
    THEN [ threw |-> TRUE, urgentMessages |-> <<>>, roomSummaries |-> <<>>,
           fetchedRooms |-> {} ]
    ELSE LET perRoom == [i \in 1..Len(listing.rooms) |->
                            SummarizeRoom(e, listing.rooms[i], time, sinceHours)]
             urgent == Flatten([i \in 1..Len(perRoom) |-> perRoom[i].urgentMessages])
             rooms  == SelectSeq(perRoom, LAMBDA r : Len(r.latestMessages) > 0)
         IN  [ threw |-> FALSE,
               urgentMessages |->
                   StableSort(urgent, { <<i, j>> \in (DOMAIN urgent) \X (DOMAIN urgent) :
                       \/ urgent[i].requiresImmediate /\ ~urgent[j].requiresImmediate
                       \/ /\ urgent[i].requiresImmediate = urgent[j].requiresImmediate
                          /\ urgent[i].message.created.at > urgent[j].message.created.at }),
               roomSummaries |->
                   StableSort(rooms, { <<i, j>> \in (DOMAIN rooms) \X (DOMAIN rooms) :
                       rooms[i].lastActivity > rooms[j].lastActivity }),
               fetchedRooms |-> FetchedRooms(listing) ]

-----------------------------------------------------------------------------
(* WebexIntegrationService and WebexWebhookService *)

\* WebexIntegrationService.isMessageUrgent(text)
IntegrationIsMessageUrgent(e, text) ==
    /\ text # <<>>
    /\ \E k \in 1..Len(UrgencyKeywords(e)) :
          KeywordMatches(ToLowerCase(text), UrgencyKeywords(e)[k])

\* WebexWebhookService.isMessageUrgent(text)
WebhookIsMessageUrgent(e, text) ==
    /\ text # <<>>
    /\ \E k \in 1..Len(UrgencyKeywords(e)) :
          KeywordMatches(ToLowerCase(text), UrgencyKeywords(e)[k])

\* The WebexMessage both services build from a fetched message.
KeywordMappedMessage(msg, urgent) ==
    [ id                |-> msg.id,
      roomId            |-> msg.roomId,
      text              |-> msg.text,
      personEmail       |-> msg.personEmail,
      personDisplayName |-> msg.personDisplayName,
      mentionedPeople   |-> msg.mentionedPeople,
      created           |-> msg.created,
      urgencyScore      |-> IF urgent THEN 10 ELSE 0,
      isUrgent          |-> urgent ]

\* testIntegrationAccess(): /people/me, then /rooms, then /messages of the
\* first room; every failure is caught and recorded.
TestIntegrationAccess(access) ==
    [ canListRooms    |-> access.rooms,
      canReadMessages |-> access.rooms /\ access.roomCount > 0 /\ access.read,
      errors |->
          (IF access.me THEN <<>> ELSE << "User info access failed" >>)
       \o (IF ~access.rooms THEN << "Room listing failed" >>
           ELSE IF access.roomCount > 0 /\ ~access.read
                THEN << "Message reading failed" >> ELSE <<>>) ]

\* getAllMessagesWithIntegration(sinceHours): the rooms that have a message
\* inside the window, with their messages.  It throws when GET /rooms fails;
\* a room whose message fetch fails is skipped.
GetAllMessagesWithIntegration(e, listing, time, sinceHours) ==
    IF ~listing.ok THEN [ threw |-> TRUE, rooms |-> <<>> ]
    ELSE LET RoomMessages(room) ==
                 IF ~room.ok THEN <<>>
                 ELSE LET within == SelectSeq(room.items,
                              LAMBDA m : CreatedAfter(m, time, sinceHours * 60))
                      IN  [i \in 1..Len(within) |->
                              KeywordMappedMessage(within[i],
                                  IntegrationIsMessageUrgent(e, within[i].text))]
             all == [i \in 1..Len(listing.rooms) |->
                        [messages |-> RoomMessages(listing.rooms[i])]]
         IN  [ threw |-> FALSE,
               rooms |-> SelectSeq(all, LAMBDA r : Len(r.messages) > 0) ]

\* testWebhookAccess(): listWebhooks succeeded or not.
TestWebhookAccess(canList) ==
    [ canCreateWebhooks |-> canList,
      canListWebhooks   |-> canList,
      errors |-> IF canList THEN <<>> ELSE << "Webhook access failed" >> ]

\* getRecentMessages(sinceMinutes)
GetRecentMessages(queue, time, sinceMinutes) ==
    SelectSeq(queue, LAMBDA m : CreatedAfter(m, time, sinceMinutes))

\* The number of distinct roomId values of the messages.
RoomCount(messages) == Cardinality({ messages[i].roomId : i \in 1..Len(messages) })

-----------------------------------------------------------------------------
(* WebexHybridService *)

Modes == { "BOT", "INTEGRATION", "WEBHOOK", "HYBRID" }

\* hybridService is undefined.
NoHybridService ==
    [ created |-> FALSE, botService |-> FALSE, integrationService |-> FALSE,
      integrationToken |-> "none", webhookService |-> FALSE, activeMode |-> "BOT" ]

\* constructor(config)
NewHybridService(cfg) ==
    [ created            |-> TRUE,
      botService         |-> cfg.botToken,
      integrationService |-> cfg.integration # <<>>,
      integrationToken   |-> IF cfg.integration # <<>>
                             THEN cfg.integration[1].accessToken ELSE "none",
      webhookService     |-> cfg.botToken /\ cfg.webhookSecret,
      activeMode         |-> "BOT" ]

\* this.config.integration?.accessToken
HasAccessToken(cfg) ==
    cfg.integration # <<>> /\ cfg.integration[1].accessToken # "none"

\* The analysis entries detectBestMode starts from.
NotProbed == [ available |-> FALSE, canReadMessages |-> FALSE, errors |-> <<>> ]

WebhookNotProbed == [ available |-> FALSE, canCreateWebhooks |-> FALSE, errors |-> <<>> ]

\* The bot probe whose exception is caught and dropped.
BotAnalysis_SilentFailure(svc, diagnostics) ==
    IF ~svc.botService \/ diagnostics.threw THEN NotProbed
    ELSE [ available |-> TRUE,
           canReadMessages |-> diagnostics.canReadMessages,
           errors    |-> IF diagnostics.likely403Cause = "ORG_POLICY"
                         THEN << "Organization policy blocks bot message reading" >>
                         ELSE <<>> ]

\* detectBestMode: the bot probe (getPersonalTokenDiagnostics)
BotAnalysis(svc, diagnostics) ==
    IF ~svc.botService THEN NotProbed
    ELSE IF diagnostics.threw
         THEN [NotProbed EXCEPT !.errors = << "Failed to run personal token diagnostics" >>]
         ELSE [ available |-> TRUE,
                canReadMessages |-> diagnostics.canReadMessages,
                errors    |-> IF diagnostics.likely403Cause = "ORG_POLICY"
                              THEN << "Organization policy blocks bot message reading" >>
                              ELSE <<>> ]

\* detectBestMode: the integration probe (testIntegrationAccess)
IntegrationAnalysis(svc, cfg, access) ==
    IF svc.integrationService /\ HasAccessToken(cfg)
    THEN [ available |-> TRUE,
           canReadMessages |-> TestIntegrationAccess(access).canReadMessages,
           errors    |-> TestIntegrationAccess(access).errors ]
    ELSE NotProbed

\* detectBestMode: the webhook probe (testWebhookAccess)
WebhookAnalysis(svc, canList) ==
    IF svc.webhookService
    THEN [ available |-> TRUE,
           canCreateWebhooks |-> TestWebhookAccess(canList).canCreateWebhooks,
           errors    |-> TestWebhookAccess(canList).errors ]
    ELSE WebhookNotProbed

\* detectBestMode's decision with the webhooks asked before the integration.
RecommendedMode_WebhookFirst(analysis) ==
    IF analysis.webhook.canCreateWebhooks /\ ~analysis.bot.canReadMessages THEN "WEBHOOK"
    ELSE IF analysis.integration.canReadMessages THEN "INTEGRATION"
    ELSE IF analysis.bot.canReadMessages THEN "BOT"
    ELSE "HYBRID"

\* detectBestMode: "Determine best mode"
RecommendedMode(analysis) ==
    IF analysis.integration.canReadMessages THEN "INTEGRATION"
    ELSE IF analysis.webhook.canCreateWebhooks /\ ~analysis.bot.canReadMessages THEN "WEBHOOK"
    ELSE IF analysis.bot.canReadMessages THEN "BOT"
    ELSE "HYBRID"

\* A detection that keeps recommending the mode in use.
DetectBestMode_KeepsActiveMode(svc, cfg, probes) ==
    LET analysis == [ bot         |-> BotAnalysis(svc, probes.bot),
                      integration |-> IntegrationAnalysis(svc, cfg, probes.integration),
                      webhook     |-> WebhookAnalysis(svc, probes.webhook) ]
    IN  [ recommendedMode |-> IF svc.activeMode # "BOT" THEN svc.activeMode
                              ELSE RecommendedMode(analysis),
          modeAnalysis    |-> analysis ]

\* detectBestMode()
DetectBestMode(svc, cfg, probes) ==
    LET analysis == [ bot         |-> BotAnalysis(svc, probes.bot),
                      integration |-> IntegrationAnalysis(svc, cfg, probes.integration),
                      webhook     |-> WebhookAnalysis(svc, probes.webhook) ]
    IN  [ recommendedMode |-> RecommendedMode(analysis),
          modeAnalysis    |-> analysis ]

\* What getAllMessages returns (threw: it throws instead); invoked and
\* integrationYield record which retrieval strategies ran, in order, and how
\* many messages the integration retrieval contributed.
Retrieved(mode, messages, urgent, roomsAccessed, invoked, yield) ==
    [ threw |-> FALSE, mode |-> mode, messages |-> messages,
      urgentMessages |-> urgent,
      stats |-> [ totalMessages |-> Len(messages), totalUrgent |-> Len(urgent),
                  roomsAccessed |-> roomsAccessed ],
      invoked |-> invoked, integrationYield |-> yield ]

RetrievalThrew(mode, invoked) ==
    [ threw |-> TRUE, mode |-> mode, messages |-> <<>>, urgentMessages |-> <<>>,
      stats |-> [ totalMessages |-> 0, totalUrgent |-> 0, roomsAccessed |-> 0 ],
      invoked |-> invoked, integrationYield |-> 0 ]

\* tryMultipleApproaches consulting the webhook queue whatever it has so far.
ConsultWebhook_Always(svc, messages) == svc.webhookService

\* tryMultipleApproaches: this.webhookService && results.messages.length === 0
ConsultWebhook(svc, messages) == svc.webhookService /\ Len(messages) = 0

\* tryMultipleApproaches: the rooms the integration strategy contributes,
\* none when it was not attempted or threw (the error is caught and logged).
IntegrationYield(attempted, result) ==
    IF attempted /\ ~result.threw THEN result.rooms ELSE <<>>

\* All the messages of the rooms getAllMessagesWithIntegration returned.
MessagesOf(rooms) == Flatten([i \in 1..Len(rooms) |-> rooms[i].messages])

\* tryMultipleApproaches: the results assembled from the integration's rooms
\* and, when the webhook strategy is consulted, the queue's recent messages.
CombinedResults(svc, tryIntegration, rooms, webhookMessages) ==
    LET fromIntegration == MessagesOf(rooms)
        tryWebhook == ConsultWebhook(svc, fromIntegration)
        messages == IF tryWebhook THEN fromIntegration \o webhookMessages
                    ELSE fromIntegration
    IN  Retrieved("HYBRID", messages,
                  SelectSeq(messages, LAMBDA m : m.isUrgent),
                  Len(rooms) + (IF tryWebhook THEN RoomCount(webhookMessages) ELSE 0),
                  (IF tryIntegration THEN << "integration" >> ELSE <<>>)
                     \o (IF tryWebhook THEN << "webhook" >> ELSE <<>>),
                  Len(fromIntegration))

\* tryMultipleApproaches(sinceHours)
TryMultipleApproaches(svc, cfg, e, queue, listing, time, sinceHours) ==
    CombinedResults(svc, svc.integrationService /\ HasAccessToken(cfg),
        IntegrationYield(svc.integrationService /\ HasAccessToken(cfg),
                         GetAllMessagesWithIntegration(e, listing, time, sinceHours)),
        GetRecentMessages(queue, time, sinceHours * 60))

\* The WebexMessage getAllMessages builds from an urgent entry of the bot.
BotUrgentMessage(entry) ==
    [ id                |-> entry.message.id,
      roomId            |-> entry.message.roomId,
      text              |-> entry.message.text,
      personEmail       |-> <<>>,
      personDisplayName |-> IF entry.message.personDisplayName # <<>>
                            THEN entry.message.personDisplayName
                            ELSE entry.message.personEmail,
      mentionedPeople   |-> <<>>,
      created           |-> entry.message.created,
      urgencyScore      |-> 10,
      isUrgent          |-> TRUE ]

\* getAllMessages, case 'INTEGRATION', from getAllMessagesWithIntegration's result
IntegrationModeResult(r) ==
    IF r.threw THEN RetrievalThrew("INTEGRATION", << "integration" >>)
    ELSE Retrieved("INTEGRATION", MessagesOf(r.rooms),
                   SelectSeq(MessagesOf(r.rooms), LAMBDA m : m.isUrgent),
                   Len(r.rooms), << "integration" >>, Len(MessagesOf(r.rooms)))

\* getAllMessages, case 'WEBHOOK', from getRecentMessages' result
WebhookModeResult(messages, urgentQueue) ==
    Retrieved("WEBHOOK", messages, urgentQueue, RoomCount(messages), << "webhook" >>, 0)

\* getAllMessages, case 'BOT', from getAllMessageSummaries' result
BotModeResult(r, listing) ==
    IF r.threw THEN RetrievalThrew("BOT", << "bot" >>)
    ELSE Retrieved("BOT",
                   Flatten([i \in 1..Len(r.roomSummaries) |->
                               r.roomSummaries[i].latestMessages]),
                   [i \in 1..Len(r.urgentMessages) |->
                       BotUrgentMessage(r.urgentMessages[i])],
                   Cardinality({ i \in 1..Len(listing.rooms) : listing.rooms[i].ok }),
                   << "bot" >>, 0)

\* getAllMessages(sinceHours)
GetAllMessages(svc, cfg, e, queue, urgentQueue, listing, time, sinceHours) ==
    CASE svc.activeMode = "INTEGRATION" ->
            IF ~svc.integrationService
            THEN Retrieved("INTEGRATION", <<>>, <<>>, 0, <<>>, 0)
            ELSE IntegrationModeResult(
                     GetAllMessagesWithIntegration(e, listing, time, sinceHours))
      [] svc.activeMode = "WEBHOOK" ->
            IF ~svc.webhookService
            THEN Retrieved("WEBHOOK", <<>>, <<>>, 0, <<>>, 0)
            ELSE WebhookModeResult(GetRecentMessages(queue, time, sinceHours * 60),
                                   urgentQueue)
      [] svc.activeMode = "BOT" ->
            IF ~svc.botService
            THEN Retrieved("BOT", <<>>, <<>>, 0, <<>>, 0)
            ELSE BotModeResult(AllMessageSummaries(e, listing, time, sinceHours), listing)
      [] svc.activeMode = "HYBRID" ->
            TryMultipleApproaches(svc, cfg, e, queue, listing, time, sinceHours)

-----------------------------------------------------------------------------
(* The environment: rooms, upstream outcomes, configurations *)

Room(id, title, type, age) ==
    [ id |-> id, title |-> title, type |-> type,
      lastActivityAge |-> age, isLocked |-> FALSE ]

\* Two group rooms whose titles differ in case only, and an old direct room.
RoomPool ==
    { Room(<<"1">>, <<"A", "l">>, "group", 0),
      Room(<<"2">>, <<"a", "l">>, "group", 0),
      Room(<<"3">>, <<"A", "o">>, "direct", 9) }

Injective(seq) == \A i, j \in 1..Len(seq) : seq[i] = seq[j] => i = j

\* What GET /rooms may return: distinct rooms, in any order.
RoomLists ==
    { l \in UNION { [1..n -> RoomPool] : n \in 0..Cardinality(RoomPool) } : Injective(l) }

\* What the two upstream calls for one room may yield: the message fetch fails;
\* or it returns messages (each recent or not, with an urgency keyword or not)
\* and the membership call fails or returns the members.
FetchOutcomes ==
    { [ok |-> FALSE, messages |-> <<>>, members |-> Undefined],
      [ok |-> TRUE,  messages |-> << [recent |-> TRUE, urgent |-> FALSE] >>,
                     members |-> Undefined],
      [ok |-> TRUE,  messages |-> << [recent |-> TRUE, urgent |-> TRUE] >>,
                     members |-> 2] }

WorldsOver(lists) ==
    UNION { { [rooms |-> l, outcomes |-> o] : o \in [1..Len(l) -> FetchOutcomes] } :
            l \in lists }

Worlds == WorldsOver(RoomLists)

\* The worlds the chat service moves between while the cache is observed.
SmallWorlds == WorldsOver({ l \in RoomLists : Len(l) <= 1 })

\* Entries of WEBEX_PRIORITY_ROOMS: the id of room 2, and the title "al".
PriorityIdentifiers == { <<"2">>, <<"a", "l">> }

PriorityLists == UNION { [1..n -> PriorityIdentifiers] : n \in 0..MaxPriority }

PatternChoices ==
    { [inc |-> <<>>,                exc |-> <<>>],
      [inc |-> << <<"a", "*">> >>,  exc |-> <<>>],
      [inc |-> << <<"A", "*">> >>,  exc |-> << <<"*", "o">> >>] }

DefaultCacheMinutes == 30
DefaultMinActivityDays == 7

\* loadConfiguration(): the configurations drawn from the environment.
FilterConfigs(priorityLists, patternChoices, cacheMinutes) ==
    { [ priorityRooms       |-> pr,
        includePatterns     |-> pc.inc,
        excludePatterns     |-> pc.exc,
        maxMonitoredRooms   |-> mx,
        minActivityMessages |-> 1,
        minActivityDays     |-> DefaultMinActivityDays,
        skipDirectMessages  |-> sd,
        cacheMinutes        |-> cm ] :
      pr \in priorityLists, pc \in patternChoices, mx \in 1..MaxMonitored,
      sd \in BOOLEAN, cm \in cacheMinutes }

\* A message as the chat service returns it; created holds the timestamp in
\* minutes (at) and its local hour and day of the week.
WebexMsg(id, roomId, text, email, name, mentioned, at, hour, day) ==
    [ id |-> id, roomId |-> roomId, text |-> text, personEmail |-> email,
      personDisplayName |-> name, mentionedPeople |-> mentioned,
      created |-> [at |-> at, hour |-> hour, day |-> day] ]

\* Values of URGENCY_KEYWORDS: unset, "asap, p1", "Down", "asap,"
KeywordSettings ==
    { <<>>,
      << "a", "s", "a", "p", ",", " ", "p", "1" >>,
      << "D", "o", "w", "n" >>,
      << "a", "s", "a", "p", "," >> }

\* Values of HIGH_PRIORITY_SENDERS: unset, "b@x"
SenderSettings == { <<>>, << "b", "@", "x" >> }

Environments ==
    [ URGENCY_KEYWORDS : KeywordSettings, HIGH_PRIORITY_SENDERS : SenderSettings ]

UnsetEnvironment == [ URGENCY_KEYWORDS |-> <<>>, HIGH_PRIORITY_SENDERS |-> <<>> ]

\* Message bodies: none, "asap", "P1 now", "download", "so down", "all ok"
Texts ==
    { <<>>,
      << "s", "o", " ", "d", "o", "w", "n" >>,
      << "a", "s", "a", "p" >>,
      << "P", "1", " ", "n", "o", "w" >>,
      << "d", "o", "w", "n", "l", "o", "a", "d" >>,
      << "a", "l", "l", " ", "o", "k" >> }

\* Messages from b@x or z@x, with no display name or the display name
\* "critical", mentioning nobody, the monitoring user or somebody else, at the
\* edges of the business hours, on a Sunday, a Monday or a Saturday.
TriageMessages ==
    { WebexMsg("m1", "r1", text, email, name, mentioned, 0, hour, day) :
        text \in Texts,
        email \in { << "b", "@", "x" >>, << "z", "@", "x" >> },
        name \in { <<>>, << "c", "r", "i", "t", "i", "c", "a", "l" >> },
        mentioned \in { <<>>, << "me" >>, << "other" >> },
        hour \in { 8, 9, 17, 18 },
        day \in { 0, 1, 6 } }

\* What GET /rooms and the per-room GET /messages return to one retrieval.
ListedRoom(ok, items, lastActivity) ==
    [ ok |-> ok, items |-> items, lastActivity |-> lastActivity ]

TriageListings ==
    { [ok |-> TRUE, rooms |-> << ListedRoom(TRUE, << m >>, 0) >>] : m \in TriageMessages }

\* A fresh message with an urgency keyword and a 90 minutes old one without.
FreshUrgent ==
    WebexMsg("m1", "r1", << "a", "s", "a", "p" >>, << "z", "@", "x" >>, <<>>, <<>>,
             0, 10, 1)

OldCalm ==
    WebexMsg("m2", "r2", << "a", "l", "l", " ", "o", "k" >>, << "z", "@", "x" >>,
             <<>>, <<>>, 0 - 90, 10, 1)

\* A fresh message without a keyword that mentions the user at 20:00.
FreshMention ==
    WebexMsg("m3", "r1", << "a", "l", "l", " ", "o", "k" >>, << "z", "@", "x" >>,
             <<>>, << "me" >>, 0, 20, 1)

HybridListings ==
    { [ok |-> FALSE, rooms |-> <<>>],
      [ok |-> TRUE,  rooms |-> <<>>],
      [ok |-> TRUE,  rooms |-> << ListedRoom(TRUE, << FreshUrgent >>, 0) >>],
      [ok |-> TRUE,  rooms |-> << ListedRoom(TRUE, << FreshMention >>, 0) >>],
      [ok |-> TRUE,  rooms |-> << ListedRoom(FALSE, <<>>, 0),
                                  ListedRoom(TRUE, << OldCalm >>, 0 - 90) >>] }

\* Outcomes of getPersonalTokenDiagnostics: it throws, or reports whether
\* messages can be read and the likely cause when they cannot.
BotDiagnostics ==
    { [threw |-> TRUE,  canReadMessages |-> FALSE, likely403Cause |-> "UNKNOWN"],
      [threw |-> FALSE, canReadMessages |-> TRUE,  likely403Cause |-> "UNKNOWN"],
      [threw |-> FALSE, canReadMessages |-> FALSE, likely403Cause |-> "ORG_POLICY"] }

\* Outcomes of the calls of testIntegrationAccess.
IntegrationAccesses ==
    { [me |-> FALSE, rooms |-> FALSE, roomCount |-> 0, read |-> FALSE],
      [me |-> TRUE,  rooms |-> TRUE,  roomCount |-> 1, read |-> FALSE],
      [me |-> TRUE,  rooms |-> TRUE,  roomCount |-> 1, read |-> TRUE] }

Probes == [ bot : BotDiagnostics, integration : IntegrationAccesses, webhook : BOOLEAN ]

\* initializeHybridService(): the configurations drawn from the environment.
HybridConfigs ==
    [ botToken : BOOLEAN,
      integration : { <<>>, << [accessToken |-> "none"] >>,
                      << [accessToken |-> "env"] >> },
      webhookSecret : BOOLEAN ]

SinceHours == { 1, 24 }

\* Values of the limit argument of getUrgentMessages.
UrgentLimits == { 1, 10 }

\* Message fetches that answer with a fresh and an eight days old message,
\* both with an urgency keyword, next to the ones of FetchOutcomes.
UrgentFetchOutcomes ==
    FetchOutcomes \cup
    { [ok |-> TRUE, messages |-> << [recent |-> TRUE,  urgent |-> TRUE],
                                    [recent |-> FALSE, urgent |-> TRUE] >>,
       members |-> 2] }

\* Up to two listed rooms and what their message fetches answer.
UrgentWorlds ==
    UNION { { [rooms |-> l, outcomes |-> o] : o \in [1..Len(l) -> UrgentFetchOutcomes] } :
            l \in { r \in RoomLists : Len(r) <= 2 } }

\* What the chat service answers to the diagnostics for one room: whether
\* its memberships list the user, and the status of GET /messages.
DiagnosedRooms == [ membership : { "member", "absent" }, read : { 200, 403, 404 } ]

\* What the chat service answers to the diagnostics: /people/me succeeds or
\* not, /rooms fails or lists rooms.
DiagnosticWorlds ==
    { [tokenValid |-> t, listed |-> FALSE, rooms |-> <<>>] : t \in BOOLEAN }
       \cup UNION { [ tokenValid : BOOLEAN, listed : {TRUE},
                      rooms : [1..n -> DiagnosedRooms] ] : n \in 0..MaxListedRooms }

Callers == 1..MaxCallers

WebhookEvents ==
    { [resource |-> "messages", event |-> "created"],
      [resource |-> "messages", event |-> "deleted"],
      [resource |-> "rooms",    event |-> "created"] }

-----------------------------------------------------------------------------
(* WebexService: requests *)

\* A message of the upstream world as GET /messages returns it: one with an
\* urgency keyword reads "asap", a recent one is created now and the others
\* eight days ago.
AsWebexMsg(room, n, m) ==
    WebexMsg(<<n>>, room.id,
             IF m.urgent THEN << "a", "s", "a", "p" >>
             ELSE << "a", "l", "l", " ", "o", "k" >>,
             << "z", "@", "x" >>, <<>>, <<>>,
             IF m.recent THEN 0 ELSE 0 - 8 * 24 * 60, 10, 1)

\* getUrgentMessages, the body of "for (const roomMeta of
\* filterResult.monitoredRooms)": the room's messages created after sinceTime,
\* mapped; nothing for a room that is not listed or whose fetch fails.
MonitoredRoomMessages(e, world, roomMeta, time, sinceHours) ==
    LET found == { k \in 1..Len(world.rooms) : world.rooms[k].id = roomMeta.id }
    IN  IF found = {} THEN <<>>
        ELSE LET k == CHOOSE i \in found : \A j \in found : i <= j
                 items == [n \in 1..Len(world.outcomes[k].messages) |->
                              MapWebexMessage(e, AsWebexMsg(world.rooms[k], n,
                                                 world.outcomes[k].messages[n]))]
             IN  IF world.outcomes[k].ok
                 THEN SelectSeq(items, LAMBDA m : CreatedAfter(m, time, sinceHours * 60))
                 ELSE <<>>

\* .slice(0, limit) for limit >= 0
Slice(items, limit) == SubSeq(items, 1, IF Len(items) < limit THEN Len(items) ELSE limit)

\* A selection that takes every fetched message for an urgent one.
IsMessageUrgent_Any(message) == TRUE

\* isMessageUrgent(message): message.isUrgent || false
IsMessageUrgent(message) == message.isUrgent

\* getUrgentMessages after filterRooms: the messages of the monitored rooms,
\* the urgent ones sorted by urgency score and then newest first, cut at limit.
SelectUrgentMessages(e, world, filterResult, time, args) ==
    LET allMessages ==
            Flatten([i \in 1..Len(filterResult.monitoredRooms) |->
                        MonitoredRoomMessages(e, world, filterResult.monitoredRooms[i],
                                              time, args.sinceHours)])
        urgent == SelectSeq(allMessages, IsMessageUrgent)
    IN  Slice(StableSort(urgent, { <<i, j>> \in (DOMAIN urgent) \X (DOMAIN urgent) :
                 \/ urgent[i].urgencyScore > urgent[j].urgencyScore
                 \/ /\ urgent[i].urgencyScore = urgent[j].urgencyScore
                    /\ urgent[i].created.at > urgent[j].created.at }),
              args.limit)

\* handleGetUrgentMessages: const { limit = 10, since_hours = 1 } = args
DefaultArgs == [ limit |-> 10, sinceHours |-> 1 ]

\* What the request returns next to the filter result: the urgent messages
\* for getUrgentMessages.
Answer(op, filterResult, args) ==
    IF op = "getUrgentMessages"
    THEN SelectUrgentMessages(env, upstream, filterResult, now, args)
    ELSE <<>>

\* op: the operation; collected: collectRoomMetadata was invoked; recomputed:
\* filterRooms went past its cache check; allRooms, result: its argument and
\* return value; droppedLive: the operation is a clearCache that emptied a
\* cache still within its TTL, or the request that directly follows one;
\* args, messages: the arguments of getUrgentMessages and what it returned.
NoCall == [ op |-> "none", collected |-> FALSE, recomputed |-> FALSE,
            allRooms |-> <<>>, result |-> <<>>, droppedLive |-> FALSE,
            args |-> DefaultArgs, messages |-> <<>> ]

Requests == { "getUrgentMessages", "getRoomMonitoringStats" }

\* getUrgentMessages / getRoomMonitoringStats: GET /rooms,
\* collectRoomMetadata, then filterRooms (cache check, or the recomputation
\* and the cache store), then what the request makes of the filter result.
RequestWith(op, args) ==
    LET allRooms     == upstream.rooms
        roomMetadata == CollectRoomMetadata(allRooms, upstream.outcomes)
    IN  IF CacheValid
        THEN /\ call' = [ op |-> op, collected |-> TRUE, recomputed |-> FALSE,
                          allRooms |-> allRooms, result |-> cachedResult,
                          droppedLive |-> FALSE, args |-> args,
                          messages |-> Answer(op, cachedResult[1], args) ]
             /\ UNCHANGED <<cachedResult, cacheExpiry>>
        ELSE LET result == ComputeFilter(config, allRooms, roomMetadata, now)
             IN  /\ cachedResult' = <<result>>
                 /\ cacheExpiry' = <<now + config.cacheMinutes>>
                 /\ call' = [ op |-> op, collected |-> TRUE, recomputed |-> TRUE,
                              allRooms |-> allRooms, result |-> <<result>>,
                              droppedLive |-> call.op = "clearCache" /\ call.droppedLive,
                              args |-> args,
                              messages |-> Answer(op, result, args) ]

\* A request with the arguments the handler defaults to.
Request(op) == RequestWith(op, DefaultArgs)

\* getUrgentMessages(), arguments left out
GetUrgentMessages ==
    /\ Request("getUrgentMessages")
    /\ UNCHANGED <<config, upstream, now, triageVars, processVars, hybridVars>>

\* getUrgentMessages(limit, sinceHours)
GetUrgentMessagesSince ==
    /\ \E limit \in UrgentLimits, sinceHours \in SinceHours :
          RequestWith("getUrgentMessages", [limit |-> limit, sinceHours |-> sinceHours])
    /\ UNCHANGED <<config, upstream, now, triageVars, processVars, hybridVars>>

GetRoomMonitoringStats ==
    /\ Request("getRoomMonitoringStats")
    /\ UNCHANGED <<config, upstream, now, triageVars, processVars, hybridVars>>

\* clearCache() that leaves cachedResult in place.
ClearedSlot_KeepsResult == [ result |-> cachedResult, expiry |-> <<>> ]

\* clearCache(): what it assigns to cachedResult and cacheExpiry.
ClearedSlot == [ result |-> <<>>, expiry |-> <<>> ]

\* handleRefreshRoomFilter -> clearRoomFilterCache -> clearCache
RefreshRoomFilter ==
    /\ cachedResult' = ClearedSlot.result
    /\ cacheExpiry' = ClearedSlot.expiry
    /\ call' = [NoCall EXCEPT !.op = "clearCache", !.droppedLive = CacheValid]
    /\ UNCHANGED <<config, upstream, now, triageVars, processVars, hybridVars>>

\* Time passes.
Tick ==
    /\ now < MaxTime
    /\ now' = now + 1
    /\ UNCHANGED <<filterVars, triageVars, processVars, hybridVars>>

\* Rooms, messages and memberships change upstream.
UpstreamChange ==
    /\ upstream' \in SmallWorlds \ {upstream}
    /\ UNCHANGED <<config, now, cachedResult, cacheExpiry, call, triageVars,
                   processVars, hybridVars>>

\* No request in progress.
NoCallers == [ c \in Callers |-> [pc |-> "idle", op |-> "none"] ]

\* A caller enters getUrgentMessages / getRoomMonitoringStats: GET /rooms and
\* collectRoomMetadata are issued and awaited; the cache is not looked at.
BeginRequest(c) ==
    /\ callers[c].pc # "collecting"
    /\ \E op \in Requests :
          callers' = [callers EXCEPT ![c] = [pc |-> "collecting", op |-> op]]
    /\ UNCHANGED <<filterVars, now, triageVars, hybridVars, collector, diagnosis>>

\* The caller's awaits are over: filterRooms runs without yielding (cache
\* check, or the recomputation and the cache store) and the request returns.
FilterRequest(c) ==
    /\ callers[c].pc = "collecting"
    /\ Request(callers[c].op)
    /\ callers' = [callers EXCEPT ![c] = [pc |-> "idle", op |-> "none"]]
    /\ UNCHANGED <<config, upstream, now, triageVars, hybridVars, collector, diagnosis>>

\* A request that leaves the cache empty on its way out.
CacheAfterFailure_Cleared == [ result |-> <<>>, expiry |-> <<>> ]

\* What a request that throws before filterRooms leaves in the cache of the
\* filter: nothing of it was written.
CacheAfterFailure == [ result |-> cachedResult, expiry |-> cacheExpiry ]

\* GET /rooms is rejected, or the request is abandoned while it awaits the
\* listing or the metadata: the catch block rethrows and filterRooms is never
\* called.
FailRequest(c) ==
    /\ callers[c].pc = "collecting"
    /\ callers' = [callers EXCEPT ![c] = [pc |-> "failed", op |-> callers[c].op]]
    /\ cachedResult' = CacheAfterFailure.result
    /\ cacheExpiry' = CacheAfterFailure.expiry
    /\ UNCHANGED <<config, upstream, call, now, triageVars, hybridVars, collector,
                   diagnosis>>

-----------------------------------------------------------------------------
(* WebexService: the prioritized view *)

\* Nothing read yet from what the chat service lists.
NotRead(listing) == [ listing |-> listing, result |-> <<>> ]

NoSummary == NotRead([ok |-> TRUE, rooms |-> <<>>])

\* getAllMessageSummaries(24) on what the chat service lists
GetAllMessageSummaries ==
    /\ summary' = [ summary EXCEPT
                      !.result = << AllMessageSummaries(env, summary.listing, now, 24) >> ]
    /\ UNCHANGED <<filterVars, now, env, hybridVars, processVars>>

\* What GET /rooms and the per-room GET /messages return in the upstream world.
ListingOf(world) ==
    [ ok    |-> TRUE,
      rooms |-> [i \in 1..Len(world.rooms) |->
                    ListedRoom(world.outcomes[i].ok,
                               [n \in 1..Len(world.outcomes[i].messages) |->
                                   AsWebexMsg(world.rooms[i], n,
                                              world.outcomes[i].messages[n])],
                               0 - world.rooms[i].lastActivityAge)] ]

\* getAllMessageSummaries(24) on the rooms of the upstream world
GetAllMessageSummariesUpstream ==
    /\ summary' = [ listing |-> ListingOf(upstream),
                    result  |-> << AllMessageSummaries(env, ListingOf(upstream),
                                                       now, 24) >> ]
    /\ UNCHANGED <<filterVars, now, env, hybridVars, processVars>>

-----------------------------------------------------------------------------
(* WebexMCPServer: the hybrid tools, and the webhook endpoint *)

\* op: the operation; ok: it did not answer with an error; auto: the mode
\* was detected (mode = 'AUTO'); sinceHours: the since_hours argument of
\* the retrieval; probes: what the probes of detectBestMode
\* met; detection, retrieval: what detectBestMode and getAllMessages returned
\* to the handler that shows it; event: the webhook event processed and what
\* GET /messages/{id} answered for it.
NoHybridCall ==
    [ op |-> "none", ok |-> TRUE, auto |-> FALSE, sinceHours |-> 0,
      probes |-> <<>>, detection |-> <<>>, retrieval |-> <<>>, event |-> <<>> ]

\* The handlers' answer when hybridService is undefined.
NotInitialized(op) == [NoHybridCall EXCEPT !.op = op, !.ok = FALSE]

\* handleDetectBestMode
HandleDetectBestMode ==
    /\ \E probes \in Probes :
          hybridCall' =
              IF ~hybridService.created THEN NotInitialized("detectBestMode")
              ELSE [ NoHybridCall EXCEPT
                       !.op = "detectBestMode",
                       !.probes = << probes >>,
                       !.detection =
                           << DetectBestMode(hybridService, hybridConfig, probes) >> ]
    /\ UNCHANGED <<filterVars, now, triageVars, processVars, hybridConfig, hybridService,
                   messageQueue, urgentMessages>>

\* handleGetMessagesHybrid: what it shows of getAllMessages' result
MessagesAnswer(auto, result) ==
    [ op |-> "getMessagesHybrid", ok |-> ~result.threw, auto |-> auto,
      sinceHours |-> 0, probes |-> <<>>, detection |-> <<>>,
      retrieval |-> << result >>, event |-> <<>> ]

\* handleGetMessagesHybrid once the mode is known: setMode, then getAllMessages
GetMessagesIn(mode, auto, since_hours, listing) ==
    /\ hybridService' = [hybridService EXCEPT !.activeMode = mode]
    /\ hybridCall' =
          [ MessagesAnswer(auto,
              GetAllMessages(hybridService', hybridConfig, env, messageQueue,
                             urgentMessages, listing, now, since_hours))
            EXCEPT !.sinceHours = since_hours ]

\* The modes a request can run in: the explicit ones, and with mode = 'AUTO'
\* the ones detectBestMode recommends for what its probes meet.
RequestedModes ==
    { <<mode, FALSE>> : mode \in Modes }
       \cup { << DetectBestMode(hybridService, hybridConfig, probes).recommendedMode,
                 TRUE >> : probes \in Probes }

\* handleGetMessagesHybrid({since_hours, mode})
HandleGetMessagesHybrid ==
    /\ IF ~hybridService.created
       THEN /\ hybridCall' = NotInitialized("getMessagesHybrid")
            /\ UNCHANGED hybridService
       ELSE \E since_hours \in SinceHours, listing \in HybridListings,
               request \in RequestedModes :
               GetMessagesIn(request[1], request[2], since_hours, listing)
    /\ UNCHANGED <<filterVars, now, triageVars, processVars, hybridConfig, messageQueue,
                   urgentMessages>>

\* handleSetupIntegration: a new integration configuration without tokens,
\* and a new WebexHybridService.
HandleSetupIntegration ==
    /\ hybridConfig' = [hybridConfig EXCEPT !.integration = << [accessToken |-> "none"] >>]
    /\ hybridService' = NewHybridService(hybridConfig')
    /\ messageQueue' = <<>>
    /\ urgentMessages' = <<>>
    /\ hybridCall' = [NoHybridCall EXCEPT !.op = "setupIntegration"]
    /\ UNCHANGED <<filterVars, now, triageVars, processVars>>

\* exchangeCodeForTokens that updates the client's header and leaves the
\* configuration as it was.
ExchangeCodeForTokens_HeaderOnly(cfg) == cfg

\* exchangeCodeForTokens: this.config.accessToken = response.data.access_token,
\* where this.config is the object WebexMCPServer.hybridConfig.integration.
ExchangeCodeForTokens(cfg) ==
    [cfg EXCEPT !.integration = << [accessToken |-> "issued"] >>]

\* handleCompleteOAuth -> completeIntegrationAuth -> exchangeCodeForTokens,
\* which also sets the Authorization header of the integration's client.
HandleCompleteOAuth ==
    /\ \E exchanged \in BOOLEAN :
          IF ~hybridService.created
          THEN /\ hybridCall' = NotInitialized("completeOAuth")
               /\ UNCHANGED <<hybridConfig, hybridService>>
          ELSE IF hybridService.integrationService /\ exchanged
               THEN /\ hybridConfig' = ExchangeCodeForTokens(hybridConfig)
                    /\ hybridService' =
                          [hybridService EXCEPT !.integrationToken = "issued"]
                    /\ hybridCall' = [NoHybridCall EXCEPT !.op = "completeOAuth"]
               ELSE /\ hybridCall' = [NoHybridCall EXCEPT !.op = "completeOAuth",
                                                          !.ok = FALSE]
                    /\ UNCHANGED <<hybridConfig, hybridService>>
    /\ UNCHANGED <<filterVars, now, triageVars, processVars, messageQueue,
                   urgentMessages>>

\* handleSetupWebhooks: the webhook secret is set and a new
\* WebexHybridService is made.
HandleSetupWebhooks ==
    /\ IF ~hybridService.created
       THEN /\ hybridCall' = NotInitialized("setupWebhooks")
            /\ UNCHANGED <<hybridConfig, hybridService, messageQueue, urgentMessages>>
       ELSE /\ hybridConfig' = [hybridConfig EXCEPT !.webhookSecret = TRUE]
            /\ hybridService' = NewHybridService(hybridConfig')
            /\ messageQueue' = <<>>
            /\ urgentMessages' = <<>>
            /\ hybridCall' = [NoHybridCall EXCEPT !.op = "setupWebhooks"]
    /\ UNCHANGED <<filterVars, now, triageVars, processVars>>

\* A test that takes every event on messages for a new message.
IsNewMessage_AnyEvent(event, fetched) ==
    event.resource = "messages" /\ fetched # <<>>

\* processWebhookEvent: event.resource === 'messages' && event.event ===
\* 'created', and getMessageById returned the message (fetched is <<>> when
\* it returned null).
IsNewMessage(event, fetched) ==
    event.resource = "messages" /\ event.event = "created" /\ fetched # <<>>

\* processWebhookEvent(event), with what GET /messages/{id} answers:
\* <<>> when it fails.
ProcessWebhookEvent ==
    /\ hybridService.webhookService
    /\ \E event \in WebhookEvents,
          fetched \in { <<>> } \cup { << m >> : m \in { FreshUrgent, OldCalm } } :
          /\ IF IsNewMessage(event, fetched)
             THEN LET message == KeywordMappedMessage(fetched[1],
                                     WebhookIsMessageUrgent(env, fetched[1].text))
                  IN  /\ Len(messageQueue) < MaxQueue
                      /\ messageQueue' = Append(messageQueue, message)
                      /\ urgentMessages' =
                             IF WebhookIsMessageUrgent(env, message.text)
                             THEN Append(urgentMessages, message) ELSE urgentMessages
             ELSE UNCHANGED <<messageQueue, urgentMessages>>
          /\ hybridCall' = [NoHybridCall EXCEPT
                               !.op = "processWebhookEvent",
                               !.event = << [event |-> event, fetched |-> fetched] >>]
    /\ UNCHANGED <<filterVars, now, triageVars, processVars, hybridConfig, hybridService>>

\* clearProcessedMessages(): the age, in minutes, from which it drops messages.
RetentionMinutes == 60

\* clearProcessedMessages: the filter it applies to both queues.
Retained(queue, time) ==
    SelectSeq(queue, LAMBDA msg : CreatedAfter(msg, time, RetentionMinutes))

\* clearProcessedMessages()
ClearProcessedMessages ==
    /\ hybridService.webhookService
    /\ messageQueue' = Retained(messageQueue, now)
    /\ urgentMessages' = Retained(urgentMessages, now)
    /\ hybridCall' = [NoHybridCall EXCEPT !.op = "clearProcessedMessages"]
    /\ UNCHANGED <<filterVars, now, triageVars, processVars, hybridConfig, hybridService>>

\* More than the retention window passes, once.
RetentionPasses ==
    /\ now = 0
    /\ now' = RetentionMinutes + 1
    /\ UNCHANGED <<filterVars, triageVars, hybridVars, processVars>>

-----------------------------------------------------------------------------
(* Specifications *)

EmptyCache ==
    /\ now = 0
    /\ cachedResult = <<>>
    /\ cacheExpiry = <<>>
    /\ call = NoCall

\* The room filter with nothing configured and nothing listed.
IdleFilter ==
    /\ config = [ priorityRooms |-> <<>>, includePatterns |-> <<>>,
                  excludePatterns |-> <<>>, maxMonitoredRooms |-> 25,
                  minActivityMessages |-> 5, minActivityDays |-> DefaultMinActivityDays,
                  skipDirectMessages |-> TRUE, cacheMinutes |-> DefaultCacheMinutes ]
    /\ upstream = [rooms |-> <<>>, outcomes |-> <<>>]
    /\ EmptyCache

IdleTriage ==
    /\ env = UnsetEnvironment
    /\ summary = NoSummary

\* No WEBEX_BOT_TOKEN, WEBEX_CLIENT_ID or WEBEX_WEBHOOK_SECRET: no hybrid service.
IdleHybrid ==
    /\ hybridConfig = [botToken |-> FALSE, integration |-> <<>>, webhookSecret |-> FALSE]
    /\ hybridService = NoHybridService
    /\ messageQueue = <<>>
    /\ urgentMessages = <<>>
    /\ hybridCall = NoHybridCall

IdleProcesses ==
    /\ collector = NoCollector
    /\ callers = NoCallers
    /\ diagnosis = NoDiagnosis

\* The filter as a function of its configuration and arguments.
InitFilter ==
    /\ config \in FilterConfigs(PriorityLists, PatternChoices, {DefaultCacheMinutes})
    /\ upstream \in Worlds
    /\ EmptyCache
    /\ IdleTriage
    /\ IdleHybrid
    /\ IdleProcesses

NextFilter ==
    \/ GetUrgentMessages
    \/ GetRoomMonitoringStats
    \/ RefreshRoomFilter

SpecFilter == InitFilter /\ [][NextFilter]_vars

\* The cache over time: requests, invalidations, the clock and the chat
\* service all move.
Init ==
    /\ config \in FilterConfigs({<<>>}, {[inc |-> <<>>, exc |-> <<>>]},
                                1..MaxCacheMinutes)
    /\ config.skipDirectMessages
    /\ upstream \in SmallWorlds
    /\ EmptyCache
    /\ IdleTriage
    /\ IdleHybrid
    /\ IdleProcesses

Next ==
    \/ GetUrgentMessages
    \/ GetRoomMonitoringStats
    \/ RefreshRoomFilter
    \/ Tick
    \/ UpstreamChange

Spec == Init /\ [][Next]_vars

\* The hard urgency filter as a function of the environment and of the
\* message the chat service holds.
InitTriage ==
    /\ IdleFilter
    /\ env \in Environments
    /\ summary \in { NotRead(listing) : listing \in TriageListings }
    /\ IdleHybrid
    /\ IdleProcesses

NextTriage == GetAllMessageSummaries

SpecTriage == InitTriage /\ [][NextTriage]_vars

\* URGENCY_KEYWORDS = "asap"
OneKeyword ==
    [ URGENCY_KEYWORDS |-> << "a", "s", "a", "p" >>, HIGH_PRIORITY_SENDERS |-> <<>> ]

\* The hybrid coordinator: any configuration, then the tools and webhook
\* events in any order.
InitHybrid ==
    /\ IdleFilter
    /\ env = OneKeyword
    /\ summary = NoSummary
    /\ hybridConfig \in HybridConfigs
    /\ hybridService = IF hybridConfig.botToken THEN NewHybridService(hybridConfig)
                       ELSE NoHybridService
    /\ messageQueue = <<>>
    /\ urgentMessages = <<>>
    /\ hybridCall = NoHybridCall
    /\ IdleProcesses

NextHybrid ==
    \/ HandleDetectBestMode
    \/ HandleGetMessagesHybrid
    \/ HandleSetupIntegration
    \/ HandleCompleteOAuth
    \/ HandleSetupWebhooks
    \/ ProcessWebhookEvent
    \/ RetentionPasses

SpecHybrid == InitHybrid /\ [][NextHybrid]_vars

\* The webhook service alone: events arrive, the queues are cleared, and the
\* retention window passes.
InitWebhook ==
    /\ IdleFilter
    /\ env \in Environments
    /\ summary = NoSummary
    /\ hybridConfig \in { cfg \in HybridConfigs : cfg.botToken /\ cfg.webhookSecret }
    /\ hybridService = NewHybridService(hybridConfig)
    /\ messageQueue = <<>>
    /\ urgentMessages = <<>>
    /\ hybridCall = NoHybridCall
    /\ IdleProcesses

NextWebhook ==
    \/ ProcessWebhookEvent
    \/ ClearProcessedMessages
    \/ RetentionPasses

SpecWebhook == InitWebhook /\ [][NextWebhook]_vars

\* The prioritized view next to the room filter, over the same rooms.
InitView ==
    /\ config \in FilterConfigs({<<>>}, {[inc |-> <<>>, exc |-> <<>>]},
                                {DefaultCacheMinutes})
    /\ upstream \in Worlds
    /\ EmptyCache
    /\ IdleTriage
    /\ IdleHybrid
    /\ IdleProcesses

NextView ==
    \/ GetUrgentMessages
    \/ GetAllMessageSummariesUpstream

SpecView == InitView /\ [][NextView]_vars

\* getUrgentMessages with its arguments, over the rooms and the messages the
\* chat service holds.
InitUrgent ==
    /\ config \in FilterConfigs(PriorityLists, {[inc |-> <<>>, exc |-> <<>>]},
                                {DefaultCacheMinutes})
    /\ upstream \in UrgentWorlds
    /\ EmptyCache
    /\ IdleTriage
    /\ IdleHybrid
    /\ IdleProcesses

NextUrgent ==
    \/ GetUrgentMessagesSince
    \/ RefreshRoomFilter

SpecUrgent == InitUrgent /\ [][NextUrgent]_vars

\* One collectRoomMetadata call followed from call to call, for any rooms and
\* any behaviour of the upstream calls.
InitCollect ==
    /\ IdleFilter
    /\ IdleTriage
    /\ IdleHybrid
    /\ \E rooms \in RoomLists :
          collector \in { [NoCollector EXCEPT !.rooms = rooms, !.outcomes = o] :
                             o \in [1..Len(rooms) -> CallOutcomes] }
    /\ callers = NoCallers
    /\ diagnosis = NoDiagnosis

NextCollect ==
    \/ CollectStart
    \/ MessagesSettle
    \/ MembershipsSettle

SpecCollect == InitCollect /\ [][NextCollect]_vars

\* The same, where a call that settles is eventually seen to settle.
SpecCollectFair ==
    /\ SpecCollect
    /\ WF_vars(CollectStart)
    /\ WF_vars(MessagesSettle)
    /\ WF_vars(MembershipsSettle)

\* Requests that overlap: each caller awaits its fetches, then filters.
InitConcurrent ==
    /\ config \in FilterConfigs({<<>>}, {[inc |-> <<>>, exc |-> <<>>]},
                                {DefaultCacheMinutes})
    /\ upstream \in SmallWorlds
    /\ EmptyCache
    /\ IdleTriage
    /\ IdleHybrid
    /\ IdleProcesses

NextConcurrent ==
    \/ \E c \in Callers : BeginRequest(c)
    \/ \E c \in Callers : FilterRequest(c)
    \/ \E c \in Callers : FailRequest(c)
    \/ RefreshRoomFilter

SpecConcurrent == InitConcurrent /\ [][NextConcurrent]_vars

\* The diagnostics as a function of what the chat service answers.
InitDiagnosis ==
    /\ IdleFilter
    /\ IdleTriage
    /\ IdleHybrid
    /\ collector = NoCollector
    /\ callers = NoCallers
    /\ diagnosis \in { NotDiagnosed(world) : world \in DiagnosticWorlds }

NextDiagnosis == GetPersonalTokenDiagnostics

SpecDiagnosis == InitDiagnosis /\ [][NextDiagnosis]_vars

-----------------------------------------------------------------------------
(* Claims about the room filter and its cache *)

Returned == call.result[1]

Listed(rooms, id) == { k \in 1..Len(rooms) : rooms[k].id = id }

\* C1: after a recomputing filterRooms call, every room of allRooms appears
\* exactly once in monitoredRooms and excludedRooms taken together.
C1_EveryRoomExactlyOnce ==
    call.recomputed =>
        \A i \in 1..Len(call.allRooms) :
            Cardinality(Listed(Returned.monitoredRooms \o Returned.excludedRooms,
                               call.allRooms[i].id)) = 1

\* C2: every FilterResult returned by filterRooms has at most
\* config.maxMonitoredRooms monitored rooms.
C2_AtMostMaxMonitored ==
    call.op \in Requests =>
        Len(Returned.monitoredRooms) <= config.maxMonitoredRooms

NamedByPriority(room) ==
    \E n \in 1..Len(config.priorityRooms) :
        \/ room.id = config.priorityRooms[n]
        \/ ToLowerCase(room.title) = ToLowerCase(config.priorityRooms[n])

\* C3: every input room whose id or case-insensitive title is an entry of
\* priorityRooms is in monitoredRooms of a freshly computed FilterResult.
C3_PriorityRoomsMonitored ==
    call.recomputed =>
        \A i \in 1..Len(call.allRooms) :
            NamedByPriority(call.allRooms[i]) =>
                Listed(Returned.monitoredRooms, call.allRooms[i].id) # {}

\* C4: a request answered from the cache returns the cached FilterResult and
\* does not invoke the metadata collector.
C4_CacheHitSkipsCollector ==
    (call.op \in Requests /\ ~call.recomputed) =>
        /\ call.result = cachedResult
        /\ ~call.collected

\* C5: clearCache empties the cache slot at once (getStats() is null), the
\* request that follows recomputes the result from its own arguments whether
\* or not the dropped cache was within its TTL, and a request answered from
\* the cache returns what the slot holds now.
C5_ClearCacheImmediate ==
    [][ /\ call'.op = "clearCache" =>
              (cachedResult' = <<>> /\ cacheExpiry' = <<>> /\ GetStats' = <<>>)
        /\ (call.op = "clearCache" /\ call'.op \in Requests) =>
              /\ call'.recomputed
              /\ call'.result =
                    << ComputeFilter(config, upstream.rooms,
                          CollectRoomMetadata(upstream.rooms, upstream.outcomes),
                          now) >>
              /\ cachedResult' = call'.result
        /\ (call'.op \in Requests /\ ~call'.recomputed) =>
              (cachedResult # <<>> /\ call'.result = cachedResult')
      ]_vars

\* C5 witness: a request recomputed right after clearCache dropped a cache
\* that was still within its TTL.
C5_Witness ==
    /\ call.op \in Requests
    /\ call.droppedLive
    /\ call.recomputed
    /\ now < MaxCacheMinutes

-----------------------------------------------------------------------------
(* Claims about the hard urgency filter *)

Classified == summary.result # <<>>

\* The message the chat service holds, and what getAllMessageSummaries made of it.
TheMessage == summary.listing.rooms[1].items[1]

UrgentEntries == summary.result[1].urgentMessages

MappedMessages ==
    [i \in 1..Len(UrgentEntries) |-> UrgentEntries[i].message]
    \o Flatten([i \in 1..Len(summary.result[1].roomSummaries) |->
                   summary.result[1].roomSummaries[i].latestMessages])

IsWordChar(c) ==
    c \in { "a", "b", "c", "d", "e", "f", "g", "h", "i", "j", "k", "l", "m",
            "n", "o", "p", "q", "r", "s", "t", "u", "v", "w", "x", "y", "z",
            "A", "D", "L", "N", "O", "P", "S", "W",
            "0", "1", "2", "3", "4", "5", "6", "7", "8", "9", "_" }

\* word occurs in text, case-insensitively, with no word character next to it
ContainsWholeWord(text, word) ==
    LET t == ToLowerCase(text)
        w == ToLowerCase(word)
    IN  /\ Len(w) > 0
        /\ \E i \in 0..(Len(t) - Len(w)) :
              /\ SubSeq(t, i + 1, i + Len(w)) = w
              /\ (i = 0 \/ ~IsWordChar(t[i]))
              /\ (i + Len(w) = Len(t) \/ ~IsWordChar(t[i + Len(w) + 1]))

\* The body holds a configured keyword, as written or without the whitespace
\* around it, as a whole word.
HasKeywordAsWord(e, message) ==
    \E k \in 1..Len(UrgencyKeywords(e)) :
        \/ ContainsWholeWord(message.text, UrgencyKeywords(e)[k])
        \/ ContainsWholeWord(message.text, Trim(UrgencyKeywords(e)[k]))

\* C6: a message whose body holds a configured urgency keyword as a
\* case-insensitive whole word is urgent for the hard filter, and
\* mapWebexMessage gives it isUrgent = true, whoever sent it and whenever.
C6_KeywordWordIsUrgent ==
    (Classified /\ HasKeywordAsWord(env, TheMessage)) =>
        /\ Len(UrgentEntries) = 1
        /\ \A i \in 1..Len(MappedMessages) : MappedMessages[i].isUrgent

\* C6 witness: a keyword written "Down" or " p1" found as a word of the body
\* of a message from an ordinary sender, without mentions, on a Monday at 9.
C6_Witness ==
    /\ Classified
    /\ HasKeywordAsWord(env, TheMessage)
    /\ env.URGENCY_KEYWORDS # <<>>
    /\ ~ArrayIncludes(HighPrioritySenders(env), TheMessage.personEmail)
    /\ TheMessage.mentionedPeople = <<>>
    /\ TheMessage.created.hour = 9 /\ TheMessage.created.day = 1
    /\ Len(UrgentEntries) = 1
    /\ UrgentEntries[1].message.isUrgent

\* C7: the hard filter finds a message urgent only if its body holds a
\* configured keyword as a whole word, or its sender address is in the
\* priority-sender list, or it mentions the monitoring user and was created
\* before 9, after 17 or on a weekend day.
C7_UrgentOnlyByTheThreeRules ==
    (Classified /\ Len(UrgentEntries) > 0) =>
        \/ HasKeywordAsWord(env, TheMessage)
        \/ ArrayIncludes(HighPrioritySenders(env), TheMessage.personEmail)
        \/ /\ ArrayIncludes(TheMessage.mentionedPeople, "me")
           /\ \/ TheMessage.created.hour < 9
              \/ TheMessage.created.hour > 17
              \/ TheMessage.created.day \in { 0, 6 }

\* keyword, without the whitespace around it and in lower case, is one of
\* production, down, outage, sev1, p1, critical, emergency.
InEmergencySubset(keyword) == ArrayIncludes(EmergencyKeywords, Trim(ToLowerCase(keyword)))

\* C8: an urgent entry of getAllMessageSummaries has requiresImmediate = true
\* exactly when one of the keywords the message matched is in the emergency
\* subset.
C8_ImmediateIffEmergencyKeyword ==
    Classified =>
        \A i \in 1..Len(UrgentEntries) :
            UrgentEntries[i].requiresImmediate <=>
                \E k \in 1..Len(UrgentEntries[i].matchedKeywords) :
                    InEmergencySubset(UrgentEntries[i].matchedKeywords[k])

-----------------------------------------------------------------------------
(* Claims about the hybrid coordinator *)

HybridRetrieval ==
    /\ hybridCall.retrieval # <<>>
    /\ hybridCall.retrieval[1].mode = "HYBRID"

Invoked(strategy) == ArrayIncludes(hybridCall.retrieval[1].invoked, strategy)

\* C10 as stated: in HYBRID mode the integration retrieval is attempted
\* first, the webhook queue is consulted exactly when the integration attempt
\* yielded no message, and the bot retrieval is never invoked.
C10_WebhookIffIntegrationEmpty ==
    HybridRetrieval =>
        /\ hybridCall.retrieval[1].invoked # <<>>
        /\ hybridCall.retrieval[1].invoked[1] = "integration"
        /\ Invoked("webhook") <=> hybridCall.retrieval[1].integrationYield = 0
        /\ ~Invoked("bot")

\* C10, amended: in HYBRID mode the integration retrieval is attempted, and
\* then first, exactly when an integration with an access token is
\* configured; the webhook queue is consulted exactly when a webhook service
\* is configured and the integration contributed no message (it was not
\* attempted, failed or found none); the bot retrieval is never invoked.
C10_WebhookIffConfiguredAndEmpty ==
    HybridRetrieval =>
        /\ Invoked("integration") <=>
              (hybridService.integrationService /\ HasAccessToken(hybridConfig))
        /\ Invoked("integration") => hybridCall.retrieval[1].invoked[1] = "integration"
        /\ Invoked("webhook") <=>
              (hybridService.webhookService
                  /\ hybridCall.retrieval[1].integrationYield = 0)
        /\ ~Invoked("bot")

\* C10 witness: the integration retrieval was attempted and yielded nothing,
\* and the messages returned come from the webhook queue.
C10_Witness ==
    /\ HybridRetrieval
    /\ hybridCall.retrieval[1].invoked = << "integration", "webhook" >>
    /\ Len(hybridCall.retrieval[1].messages) > 0

-----------------------------------------------------------------------------
(* Claims about the order and the limit of the candidates *)

WithReason(rooms, reason) == SelectSeq(rooms, LAMBDA md : md.filterReason = reason)

InputPosition(md) == CHOOSE k \in 1..Len(call.allRooms) : call.allRooms[k].id = md.id

\* C20: after a recomputing filterRooms call the rooms monitored as 'Passed
\* filters' followed by the rooms excluded as 'Limit exceeded' are in order of
\* score descending, rooms of equal score in the order of allRooms, and the
\* monitored ones are exactly the first max(0, maxMonitoredRooms -
\* priorityCount) of them.
C20_TopCandidatesByScore ==
    call.recomputed =>
        LET passed  == WithReason(Returned.monitoredRooms, "Passed filters")
            dropped == WithReason(Returned.excludedRooms, "Limit exceeded")
            ranked  == passed \o dropped
            limit   == Max(0, config.maxMonitoredRooms - Returned.stats.priorityCount)
        IN  /\ \A i, j \in 1..Len(ranked) :
                  i < j =>
                     \/ ranked[i].score > ranked[j].score
                     \/ /\ ranked[i].score = ranked[j].score
                        /\ InputPosition(ranked[i]) < InputPosition(ranked[j])
            /\ Len(passed) = IF Len(ranked) < limit THEN Len(ranked) ELSE limit

\* C20 witness: two candidates of equal score, the limit lets one of them in.
C20_Witness ==
    /\ call.recomputed
    /\ \E md \in { Returned.monitoredRooms[i] : i \in 1..Len(Returned.monitoredRooms) },
          ex \in { Returned.excludedRooms[i] : i \in 1..Len(Returned.excludedRooms) } :
          /\ md.filterReason = "Passed filters"
          /\ ex.filterReason = "Limit exceeded"
          /\ md.score = ex.score

-----------------------------------------------------------------------------
(* Claims about the metadata collector *)

\* The rooms collectRoomMetadata is through with.
Collected(k) == collector.phase = "done" \/ k < collector.index

\* C11: collectRoomMetadata never throws; every room it is through with has
\* an entry in the Map, the degraded one (no recent and no urgent messages,
\* archived, 'Access error') when its message fetch failed; and the Map it
\* returns has an entry for every input room, those after a failed one too.
C11_EveryRoomGetsMetadata ==
    /\ collector.phase # "threw"
    /\ \A k \in 1..Len(collector.rooms) :
          Collected(k) =>
             /\ collector.rooms[k].id \in DOMAIN collector.metadata
             /\ collector.outcomes[k].fetch = "fails" =>
                   LET md == collector.metadata[collector.rooms[k].id]
                   IN  /\ md.recentMessageCount = 0
                       /\ md.urgentMessageCount = 0
                       /\ md.isArchived
                       /\ md.filterReason = "Access error"
    /\ collector.phase = "done" =>
          /\ DOMAIN collector.metadata =
                { collector.rooms[k].id : k \in 1..Len(collector.rooms) }
          /\ collector.metadata =
                CollectRoomMetadata(collector.rooms,
                    [k \in 1..Len(collector.rooms) |->
                        AsFetchOutcome(collector.outcomes[k])])

\* C11 witness: the collection returned, the message fetch of its first room
\* had failed and a later room has its ordinary metadata.
C11_Witness ==
    /\ collector.phase = "done"
    /\ Len(collector.rooms) > 1
    /\ collector.outcomes[1].fetch = "fails"
    /\ collector.metadata[collector.rooms[2].id].filterReason = ""

\* C12: a collectRoomMetadata call eventually returns, whatever the upstream
\* calls do, one that never responds included.
C12_CollectionTerminates == <>(collector.phase = "done")

-----------------------------------------------------------------------------
(* Claims about the prioritized view *)

\* C14: getAllMessageSummaries issues a message fetch only for rooms that the
\* room filter monitors for the same rooms and metadata.
C14_FetchesOnlyMonitoredRooms ==
    (summary.result # <<>> /\ summary.listing = ListingOf(upstream)) =>
        LET filtered == ComputeFilter(config, upstream.rooms,
                            CollectRoomMetadata(upstream.rooms, upstream.outcomes),
                            now)
        IN  \A i \in summary.result[1].fetchedRooms :
                Listed(filtered.monitoredRooms, upstream.rooms[i].id) # {}

-----------------------------------------------------------------------------
(* Claims about the webhook message queue *)

\* C13: after every processWebhookEvent and every read of the queue through
\* getAllMessages, the queue holds no message older than the retention window.
C13_QueueWithinRetention ==
    [][ hybridCall'.op \in { "processWebhookEvent", "getMessagesHybrid" } /\ now' = now
           => \A i \in 1..Len(messageQueue') :
                 CreatedAfter(messageQueue'[i], now', RetentionMinutes) ]_vars

-----------------------------------------------------------------------------
(* Claims about urgency on the retrieval paths *)

\* C16: every message getAllMessages returns over the integration or the
\* webhook path is flagged urgent exactly when WebexService's hard filter
\* classifies it as urgent, and is then among the urgent messages returned.
C16_SameUrgencyOnEveryPath ==
    (hybridCall.retrieval # <<>>
        /\ hybridCall.retrieval[1].mode \in { "INTEGRATION", "WEBHOOK", "HYBRID" }) =>
        \A i \in 1..Len(hybridCall.retrieval[1].messages) :
            LET m == hybridCall.retrieval[1].messages[i]
            IN  /\ m.isUrgent <=> IsMessageCriticallyUrgent(env, m)
                /\ IsMessageCriticallyUrgent(env, m) =>
                      ArrayIncludes(hybridCall.retrieval[1].urgentMessages, m)

-----------------------------------------------------------------------------
(* Claims about the credentials the coordinator holds *)

\* The configuration and the integration's client both hold the token that
\* the last code exchange issued.
HoldsIssuedToken ==
    /\ hybridConfig.integration # <<>>
    /\ hybridConfig.integration[1].accessToken = "issued"
    /\ hybridService.integrationService
    /\ hybridService.integrationToken = "issued"

\* C17: a successful completeIntegrationAuth leaves the coordinator holding
\* the issued access token, in its configuration and in the integration's
\* client; while it holds it, detectBestMode probes the integration and
\* retrievals leave it in place, and a webhook setup keeps it.
C17_IssuedTokenIsHeld ==
    [][ /\ (hybridCall'.op = "completeOAuth" /\ hybridCall'.ok) => HoldsIssuedToken'
        /\ (HoldsIssuedToken /\ hybridCall'.op = "setupWebhooks") => HoldsIssuedToken'
        /\ (HoldsIssuedToken /\ hybridCall'.op = "getMessagesHybrid") => HoldsIssuedToken'
        /\ (HoldsIssuedToken /\ hybridCall'.op = "detectBestMode") =>
              /\ HoldsIssuedToken'
              /\ hybridCall'.detection[1].modeAnalysis.integration.available
      ]_vars

\* C17 witness: the coordinator holds the issued token next to a webhook
\* service, and detectBestMode probed the integration and recommends it.
C17_Witness ==
    /\ HoldsIssuedToken
    /\ hybridService.webhookService
    /\ hybridConfig.webhookSecret
    /\ hybridCall.op = "detectBestMode"
    /\ hybridCall.detection[1].recommendedMode = "INTEGRATION"

-----------------------------------------------------------------------------
(* Claims about overlapping requests *)

InFlight == { c \in Callers : callers[c].pc = "collecting" }

\* C15: while the cache is stale or empty, at most one caller has the
\* upstream fetches of a recomputation in flight.
C15_OneRecomputationInFlight ==
    ~CacheValid => Cardinality(InFlight) <= 1

-----------------------------------------------------------------------------
(* Claims about the personal token diagnostics *)

Diagnosed == diagnosis.result[1]

\* The rules of the root-cause analysis in their order, each with whether it
\* matches the evidence, closed by what holds when none of the chain matches.
CauseRules ==
    << [ matches |-> Diagnosed.canListRooms /\ Diagnosed.botInRoomsCount > 0
                        /\ ~Diagnosed.canReadMessages,
         cause   |-> "ORG_POLICY" ],
       [ matches |-> Diagnosed.canListRooms /\ Diagnosed.botInRoomsCount = 0,
         cause   |-> "NOT_ROOM_MEMBER" ],
       [ matches |-> ~Diagnosed.canListRooms,
         cause   |-> "TOKEN_INVALID" ],
       [ matches |-> Diagnosed.canListRooms /\ ~Diagnosed.canReadMessages
                        /\ Diagnosed.errorCode = 403,
         cause   |-> "MISSING_SCOPE" ],
       [ matches |-> ~Diagnosed.tokenValid,
         cause   |-> "TOKEN_INVALID" ],
       [ matches |-> TRUE,
         cause   |-> "UNKNOWN" ] >>

FirstMatch(rules) ==
    rules[CHOOSE i \in 1..Len(rules) :
             rules[i].matches /\ \A j \in 1..(i - 1) : ~rules[j].matches]

\* C18: likely403Cause is a function of the evidence (token valid, rooms
\* listed, tested rooms the user is a member of, messages read, last read
\* error code): the cause of the first rule, in the fixed order, that
\* matches it.
C18_CauseIsFirstMatch ==
    diagnosis.result # <<>> =>
        Diagnosed.likely403Cause = FirstMatch(CauseRules).cause

\* C18 witness: the evidence matches the missing-scope rule and an earlier
\* rule, and the earlier rule gives the cause.
C18_Witness ==
    /\ diagnosis.result # <<>>
    /\ CauseRules[4].matches
    /\ CauseRules[1].matches
    /\ Diagnosed.likely403Cause = "ORG_POLICY"

-----------------------------------------------------------------------------
(* Claims about the probes of detectBestMode *)

Detected == hybridCall.op = "detectBestMode" /\ hybridCall.ok

\* C19: detectBestMode returns a recommendation and an analysis entry for
\* each of the three modes whatever its probes meet; a probe that fails
\* leaves an error string in its own mode's entry, and every configured mode
\* is still probed.
C19_ProbeFailuresAreRecorded ==
    Detected =>
        LET probes   == hybridCall.probes[1]
            analysis == hybridCall.detection[1].modeAnalysis
            probedIntegration ==
                hybridService.integrationService /\ HasAccessToken(hybridConfig)
        IN  /\ hybridCall.detection[1].recommendedMode \in Modes
            /\ DOMAIN analysis = { "bot", "integration", "webhook" }
            /\ (hybridService.botService /\ probes.bot.threw) =>
                  (~analysis.bot.available /\ analysis.bot.errors # <<>>)
            /\ (probedIntegration /\ ~(probes.integration.me /\ probes.integration.rooms)) =>
                  analysis.integration.errors # <<>>
            /\ (hybridService.webhookService /\ ~probes.webhook) =>
                  analysis.webhook.errors # <<>>
            /\ analysis.bot.available <=> (hybridService.botService /\ ~probes.bot.threw)
            /\ analysis.integration.available <=> probedIntegration
            /\ analysis.webhook.available <=> hybridService.webhookService

\* C19 witness: the bot probe threw, and the integration and the webhook
\* probes ran after it and succeeded.
C19_Witness ==
    /\ Detected
    /\ hybridService.botService
    /\ hybridCall.probes[1].bot.threw
    /\ hybridCall.detection[1].modeAnalysis.bot.errors # <<>>
    /\ hybridCall.detection[1].modeAnalysis.integration.canReadMessages
    /\ hybridCall.detection[1].modeAnalysis.webhook.canCreateWebhooks

-----------------------------------------------------------------------------
(* Claims about the tiers of the room filter *)

\* The entries of the result for the room: monitored and excluded together.
EntriesOf(room) ==
    SelectSeq(Returned.monitoredRooms \o Returned.excludedRooms,
              LAMBDA md : md.id = room.id)

IsPriorityRoom(room) ==
    \E k \in 1..Len(Returned.monitoredRooms) :
        /\ Returned.monitoredRooms[k].id = room.id
        /\ Returned.monitoredRooms[k].filterReason = "Priority room"

-----------------------------------------------------------------------------
(* Claims about the sender and the mention rules of the hard filter *)

\* Rule 1 of the hard filter finds no configured keyword in the body.
NoKeywordMatch(e, message) ==
    \A k \in 1..Len(UrgencyKeywords(e)) :
        ~KeywordMatches(ToLowerCase(message.text), UrgencyKeywords(e)[k])

FromPrioritySender(e, message) ==
    ArrayIncludes(HighPrioritySenders(e), message.personEmail)

OutsideBusinessHours(created) ==
    created.hour < 9 \/ created.hour > 17 \/ created.day \in { 0, 6 }

-----------------------------------------------------------------------------
(* Claims about requests that fail before the filter *)

\* The result of a complete pass of filterRooms over what the chat service
\* holds.
CompletePass ==
    ComputeFilter(config, upstream.rooms,
                  CollectRoomMetadata(upstream.rooms, upstream.outcomes), now)

\* C23: a request that fails or is abandoned before filterRooms completes
\* leaves cachedResult and cacheExpiry as they were, and the cache never holds
\* anything but the result of a complete pass.
C23_CacheWrittenByCompletePass ==
    [][ /\ \A c \in Callers :
              (callers[c].pc = "collecting" /\ callers'[c].pc = "failed") =>
                  (cachedResult' = cachedResult /\ cacheExpiry' = cacheExpiry)
        /\ cachedResult' # <<>> => cachedResult'[1] = CompletePass
      ]_vars

\* C23 witness: one request failed, the cache holds a result, and the latest
\* request was served that result.
C23_Witness ==
    /\ \E c \in Callers : callers[c].pc = "failed"
    /\ cachedResult # <<>>
    /\ Len(cachedResult[1].monitoredRooms) > 0
    /\ call.op \in Requests
    /\ ~call.recomputed
    /\ call.result = cachedResult

-----------------------------------------------------------------------------
(* Claims about the state detectBestMode leaves *)

\* The step is a run of detectBestMode.
DetectionStep ==
    /\ hybridCall' # hybridCall
    /\ hybridCall'.op = "detectBestMode"
    /\ hybridCall'.ok

\* C24: a run of detectBestMode leaves the active mode, the configured
\* services and the webhook queue as they were, and what it returns is
\* determined by the configured services and by what its probes meet in this
\* run: the same for every active mode and after every earlier call.
C24_DetectionIsStateless ==
    [][ DetectionStep =>
          /\ hybridService' = hybridService
          /\ hybridConfig' = hybridConfig
          /\ messageQueue' = messageQueue
          /\ urgentMessages' = urgentMessages
          /\ \A mode \in Modes :
                hybridCall'.detection[1] =
                    DetectBestMode([hybridService EXCEPT !.activeMode = mode],
                                   hybridConfig, hybridCall'.probes[1])
      ]_vars

\* C24 witness: after a retrieval in WEBHOOK mode and with messages queued,
\* detectBestMode recommends another mode and the active mode is still WEBHOOK.
C24_Witness ==
    /\ Detected
    /\ hybridService.activeMode = "WEBHOOK"
    /\ hybridCall.detection[1].recommendedMode = "INTEGRATION"
    /\ messageQueue # <<>>

-----------------------------------------------------------------------------
(* Claims about the aggregate stats *)

\* The ids of the monitored rooms with reason 'Priority room'.
PriorityRoomIds ==
    { Returned.monitoredRooms[k].id :
        k \in { n \in 1..Len(Returned.monitoredRooms) :
                   Returned.monitoredRooms[n].filterReason = "Priority room" } }

\* C25: the stats of every FilterResult agree with its lists: monitoredCount
\* is the length of monitoredRooms and the sum of priorityCount and
\* patternMatchedCount, priorityCount is the number of distinct monitored rooms
\* with reason 'Priority room', droppedDueToLimit is the number of excluded
\* rooms with reason 'Limit exceeded', and totalRooms is the number of
\* monitored and excluded rooms together.
C25_StatsAgreeWithLists ==
    call.op \in Requests =>
        /\ Returned.stats.monitoredCount = Len(Returned.monitoredRooms)
        /\ Returned.stats.monitoredCount =
              Returned.stats.priorityCount + Returned.stats.patternMatchedCount
        /\ Returned.stats.priorityCount = Cardinality(PriorityRoomIds)
        /\ Returned.stats.droppedDueToLimit =
              Len(WithReason(Returned.excludedRooms, "Limit exceeded"))
        /\ Returned.stats.totalRooms =
              Len(Returned.monitoredRooms) + Len(Returned.excludedRooms)

-----------------------------------------------------------------------------
(* Claims about the messages getUrgentMessages returns *)

\* The listed rooms that the filter result monitors and whose message fetch
\* answers, and the one whose fetch fails.
MonitoredAndRead ==
    { k \in 1..Len(upstream.rooms) :
         /\ Listed(Returned.monitoredRooms, upstream.rooms[k].id) # {}
         /\ upstream.outcomes[k].ok }

MonitoredAndFailing ==
    { k \in 1..Len(upstream.rooms) :
         /\ Listed(Returned.monitoredRooms, upstream.rooms[k].id) # {}
         /\ ~upstream.outcomes[k].ok }

\* C26: every message getUrgentMessages(limit, sinceHours) returns is urgent
\* for the hard filter, was created after the since bound and is of a room in
\* monitoredRooms of the filter result the call used; at most limit messages
\* are returned; and when the limit cuts nothing, every urgent message after
\* the since bound of every monitored room whose fetch answers is returned,
\* whatever the fetches of the other monitored rooms do.
C26_UrgentMessagesOfMonitoredRooms ==
    call.op = "getUrgentMessages" =>
        /\ \A i \in 1..Len(call.messages) :
              /\ IsMessageCriticallyUrgent(env, call.messages[i])
              /\ call.messages[i].created.at > now - call.args.sinceHours * 60
              /\ Listed(Returned.monitoredRooms, call.messages[i].roomId) # {}
        /\ Len(call.messages) <= call.args.limit
        /\ Len(call.messages) < call.args.limit =>
              \A k \in MonitoredAndRead :
                 \A n \in 1..Len(upstream.outcomes[k].messages) :
                    LET m == AsWebexMsg(upstream.rooms[k], n, upstream.outcomes[k].messages[n])
                    IN  ( /\ IsMessageCriticallyUrgent(env, m)
                          /\ m.created.at > now - call.args.sinceHours * 60 ) =>
                            \E i \in 1..Len(call.messages) :
                               /\ call.messages[i].id = m.id
                               /\ call.messages[i].roomId = m.roomId

\* C26 witness: a monitored room whose message fetch fails, and next to it a
\* monitored room with a fresh and an old urgent message, of which the fresh
\* one is returned.
C26_Witness ==
    /\ call.op = "getUrgentMessages"
    /\ MonitoredAndFailing # {}
    /\ \E k \in MonitoredAndRead : Len(upstream.outcomes[k].messages) = 2
    /\ Len(call.messages) = 1
    /\ call.args.limit = 10

-----------------------------------------------------------------------------
(* Claims about the result of getAllMessages *)

\* The step is a getAllMessages that returns.
RetrievalStep ==
    /\ hybridCall' # hybridCall
    /\ hybridCall'.op = "getMessagesHybrid"
    /\ hybridCall'.ok

\* C27: in every mode the urgent messages getAllMessages returns are among
\* the messages it returns, by message id, so that totalUrgent is at most
\* totalMessages, and each of them was created within the last sinceHours.
C27_UrgentAmongMessages ==
    [][ RetrievalStep =>
          LET result == hybridCall'.retrieval[1]
          IN  /\ \A i \in 1..Len(result.urgentMessages) :
                    \E j \in 1..Len(result.messages) :
                       result.messages[j].id = result.urgentMessages[i].id
              /\ result.stats.totalUrgent <= result.stats.totalMessages
              /\ \A i \in 1..Len(result.urgentMessages) :
                    result.urgentMessages[i].created.at
                        > now' - hybridCall'.sinceHours * 60
      ]_vars

-----------------------------------------------------------------------------
(* Claims about the reach of the classifications *)

\* C28: when rooms can be listed, messages cannot be read and the read error
\* code is 403, getPersonalTokenDiagnostics classifies the cause as
\* MISSING_SCOPE, one of the five classifications it produces.
C28_MissingScopeOn403 ==
    ( /\ diagnosis.result # <<>>
      /\ Diagnosed.canListRooms
      /\ ~Diagnosed.canReadMessages
      /\ Diagnosed.errorCode = 403 ) =>
        Diagnosed.likely403Cause = "MISSING_SCOPE"


\* C29: when the token validity test fails the cause is TOKEN_INVALID,
\* whatever the later tests find; and the cause is UNKNOWN only when the token
\* is valid, rooms are listed, the user is a member of a tested room and
\* messages can be read.
C29_InvalidTokenPrevails ==
    diagnosis.result # <<>> =>
        /\ ~Diagnosed.tokenValid => Diagnosed.likely403Cause = "TOKEN_INVALID"
        /\ Diagnosed.likely403Cause = "UNKNOWN" =>
              /\ Diagnosed.tokenValid
              /\ Diagnosed.canListRooms
              /\ Diagnosed.botInRoomsCount > 0
              /\ Diagnosed.canReadMessages

-----------------------------------------------------------------------------
(* Claims about the queues of the webhook service *)

\* Every entry of urgentMessages is an entry of messageQueue.
UrgentAreQueued ==
    \A i \in 1..Len(urgentMessages) :
        \E j \in 1..Len(messageQueue) : messageQueue[j] = urgentMessages[i]

\* C30: processWebhookEvent changes the queues only for an event with
\* resource 'messages' and event 'created' whose message fetch succeeds, and
\* then by appending the fetched message to messageQueue; any other event and
\* a failed fetch leave messageQueue and urgentMessages as they were; it
\* raises no error; and through every processWebhookEvent and
\* clearProcessedMessages every entry of urgentMessages stays an entry of
\* messageQueue.
C30_QueuesChangeOnNewMessages ==
    [][ /\ (hybridCall'.op = "processWebhookEvent" /\ now' = now) =>
              LET processed == hybridCall'.event[1]
              IN  /\ hybridCall'.ok
                  /\ IF /\ processed.event.resource = "messages"
                        /\ processed.event.event = "created"
                        /\ processed.fetched # <<>>
                     THEN /\ Len(messageQueue') = Len(messageQueue) + 1
                          /\ SubSeq(messageQueue', 1, Len(messageQueue)) = messageQueue
                          /\ messageQueue'[Len(messageQueue')].id = processed.fetched[1].id
                     ELSE messageQueue' = messageQueue /\ urgentMessages' = urgentMessages
        /\ UrgentAreQueued'
      ]_vars

\* C30 witness: an urgent message was queued by an earlier event, and an
\* event on a deleted message, whose fetch answers, has left both queues as
\* they were.
C30_Witness ==
    /\ hybridCall.op = "processWebhookEvent"
    /\ hybridCall.event[1].event.event = "deleted"
    /\ hybridCall.event[1].fetched # <<>>
    /\ Len(messageQueue) = 1
    /\ urgentMessages = messageQueue

=============================================================================
